---------------------------- MODULE Spec2Model ----------------------------
(***************************************************************************)
(* State-graph engine of the gateway control plane.                        *)
(*                                                                         *)
(*   - ChangeProcessorImpl (package state): a mutex-guarded monitor over    *)
(*     the store; CaptureUpsertChange, CaptureDeleteChange and Process are  *)
(*     called by concurrent goroutines.                                     *)
(*   - Capturer (package relationship): the relationship tracker.           *)
(*                                                                         *)
(* Go maps are functions whose DOMAIN is the set of keys present.  A        *)
(* pointer that may be nil is a sequence of length 0 (nil) or 1.  A         *)
(* types.NamespacedName is a record [Namespace, Name].                      *)
(***************************************************************************)
EXTENDS Integers, Sequences, FiniteSets, TLC

VARIABLES
    store,               \* ChangeProcessorImpl.store
    storeChanged,        \* ChangeProcessorImpl.storeChanged
    locked,              \* ChangeProcessorImpl.lock (sync.Mutex state)
    pc,                  \* position of each goroutine in its current call
    op,                  \* the method each goroutine is calling
    last,                \* what the capture body of a goroutine did (until it returns)
    ret,                 \* named results of Process (changed, conf, statuses)
    graph,               \* local variable graph of Process (<<>> until it is built)
    obs,                 \* history: what a Process call saw when it took the lock
    pending,             \* history: a relevant capture ran since the last rebuild
    quiet,               \* history: a Process ran and no capture body ran since
    gone,                \* history: the class or gateway the last capture body deleted
    delivered,           \* history: the EndpointSlice last delivered under each key, until its delete
    routesToServices,    \* Capturer.routesToServices
    serviceRefCount,     \* Capturer.serviceRefCount
    endpointSliceOwners, \* Capturer.endpointSliceOwners
    captured,            \* history: the HTTPRoute last captured under each key
    roundTrip,           \* history: a Capture of a route and the Remove right after it
    resolverArgs,        \* arguments of a Resolve call and what List returns for them
    resolveResult,       \* what Resolve returned (<<>> before the call)
    targetPortResult,    \* what getTargetPort returned (<<>> before the call)
    builderArgs,         \* the builder function called and its argument (<<>> for none)
    builderResult        \* what the builder function returned (<<>> before the call)

cpVars == <<store, storeChanged, locked, pc, op, last, ret, graph, obs, pending, quiet, gone,
           delivered>>
trackerVars == <<routesToServices, serviceRefCount, endpointSliceOwners, captured, roundTrip>>
resolverVars == <<resolverArgs, resolveResult, targetPortResult>>
builderVars == <<builderArgs, builderResult>>
vars == <<store, storeChanged, locked, pc, op, last, ret, graph, obs, pending, quiet, gone,
          delivered,
          routesToServices, serviceRefCount, endpointSliceOwners, captured, roundTrip,
          resolverArgs, resolveResult, targetPortResult, builderArgs, builderResult>>

---------------------------------------------------------------------------
(* Bounds and inputs *)

\* Generations the API server hands out are 1..MaxGen.
MaxGen == 2

Threads == {"t1", "t2"}

\* The single caller of the replay specification.
Caller == "t1"

\* ChangeProcessorConfig
GatewayClassName == "my-class"
GatewayCtlrName == "my.controller"

NS == "test"

Nsname(ns, name) == [Namespace |-> ns, Name |-> name]

\* v1beta1.BackendRef: Kind, Namespace and Port are pointers.
Ref(kind, ns, name) == [Kind |-> kind, Namespace |-> ns, Name |-> name, Port |-> <<80>>]

\* v1beta1.HTTPRouteMatch with a path value.
PathMatch(p) == [Path |-> << [Value |-> <<p>>] >>]

\* v1beta1.HTTPRouteRule
Rule(refs) == [Matches |-> << PathMatch("/") >>, BackendRefs |-> refs]

\* v1beta1.ParentReference to a listener of the gateway.
ParentRef(listenerName) ==
    [Namespace |-> <<NS>>, Name |-> "gateway", SectionName |-> <<listenerName>>]

\* v1beta1.GatewayTLSConfig terminating TLS with the certificate of a secret.
TLSTerminate ==
    << [Mode |-> <<"Terminate">>,
        CertificateRefs |-> << [Kind |-> <<"Secret">>, Name |-> "secret",
                                Namespace |-> <<NS>>] >>] >>

\* v1beta1.Listener: Hostname and TLS are pointers.
listener80 ==
    [Name |-> "listener-80-1", Hostname |-> <<>>, Port |-> 80, Protocol |-> "HTTP",
     TLS |-> <<>>]
listener80WithHostname ==
    [Name |-> "listener-80-2", Hostname |-> <<"foo.example.com">>, Port |-> 80,
     Protocol |-> "HTTP", TLS |-> <<>>]
listener443 ==
    [Name |-> "listener-443-1", Hostname |-> <<>>, Port |-> 443, Protocol |-> "HTTPS",
     TLS |-> TLSTerminate]
listener443WithHostname ==
    [Name |-> "listener-443-with-hostname", Hostname |-> <<"example.com">>, Port |-> 443,
     Protocol |-> "HTTPS", TLS |-> TLSTerminate]
invalidListener ==
    [Name |-> "invalid-listener", Hostname |-> <<>>, Port |-> 443, Protocol |-> "HTTPS",
     TLS |-> <<>>]

\* Rule lists of the HTTPRoutes the watcher delivers.
RulesSvc1 == << Rule(<< Ref(<<"Service">>, <<>>, "svc1") >>) >>
RulesSvc2 ==
    << Rule(<< Ref(<<>>, <<NS>>, "svc2"), Ref(<<"Service">>, <<>>, "svc1") >>),
       Rule(<<>>),
       Rule(<< Ref(<<"Invalid">>, <<>>, "svc1") >>) >>
RulesBoth ==
    << Rule(<< Ref(<<"Service">>, <<>>, "svc1") >>),
       Rule(<< Ref(<<"Service">>, <<NS>>, "svc2") >>),
       Rule(<< Ref(<<>>, <<>>, "svc1") >>) >>

RulesCatalog == {RulesSvc1, RulesSvc2, RulesBoth}

RouteNames == {"hr-1", "hr-2"}
ServiceNames == {"svc1", "svc2"}
SliceNames == {"es-1"}
GatewayNames == {"gateway"}

Generations == 1..MaxGen

\* The managed class (any generation), the managed class claimed by another
\* controller, and a class with another name.
GatewayClassInputs ==
    [Kind : {"GatewayClass"}, Namespace : {""}, Name : {GatewayClassName},
     Generation : Generations, ControllerName : {GatewayCtlrName}]
    \cup
    [Kind : {"GatewayClass"}, Namespace : {""}, Name : {GatewayClassName},
     Generation : {1}, ControllerName : {"other.controller"}]
    \cup
    [Kind : {"GatewayClass"}, Namespace : {""}, Name : {"other-class"},
     Generation : {1}, ControllerName : {GatewayCtlrName}]

\* The gateway of the managed class with an HTTP and an HTTPS listener.
GatewayInputs ==
    [Kind : {"Gateway"}, Namespace : {NS}, Name : GatewayNames, Generation : Generations,
     GatewayClassName : {GatewayClassName}, Listeners : {<<listener80, listener443>>}]

\* hr-1 is delivered in every generation with every rule list, hr-2 with two
\* of the rule lists.
HTTPRouteInputs ==
    [Kind : {"HTTPRoute"}, Namespace : {NS}, Name : {"hr-1"},
     Generation : Generations, Rules : RulesCatalog,
     ParentRefs : {<< ParentRef("listener-80-1") >>}, Hostnames : {<<"foo.example.com">>}]
    \cup
    [Kind : {"HTTPRoute"}, Namespace : {NS}, Name : {"hr-2"},
     Generation : {1}, Rules : {RulesSvc1, RulesBoth},
     ParentRefs : {<< ParentRef("listener-443-1") >>}, Hostnames : {<<"bar.example.com">>}]

ServiceInputs ==
    [Kind : {"Service"}, Namespace : {NS}, Name : ServiceNames]

OwnerRef(kind, name) == [Kind |-> kind, Name |-> name]

OwnersCatalog ==
    { << OwnerRef("Service", "svc1") >>,
      << OwnerRef("Deployment", "svc1"), OwnerRef("Service", "svc2") >> }

EndpointSliceInputs ==
    [Kind : {"EndpointSlice"}, Namespace : {NS}, Name : SliceNames,
     OwnerReferences : OwnersCatalog]

\* A kind the processor has no case for.
SecretInputs == [Kind : {"Secret"}, Namespace : {NS}, Name : {"secret"}]

UpsertInputs ==
    GatewayClassInputs \cup GatewayInputs \cup HTTPRouteInputs \cup ServiceInputs
        \cup EndpointSliceInputs \cup SecretInputs

\* The events of the concurrent specification: one class, one gateway, one
\* route in every generation, referenced and unreferenced Services, one
\* EndpointSlice, a kind that panics.
RaceUpserts ==
    [Kind : {"GatewayClass"}, Namespace : {""}, Name : {GatewayClassName},
     Generation : {1}, ControllerName : {GatewayCtlrName}]
    \cup {g \in GatewayInputs : g.Generation = 1}
    \cup {hr \in HTTPRouteInputs : hr.Name = "hr-1" /\ hr.Rules = RulesSvc1}
    \cup ServiceInputs
    \cup [Kind : {"EndpointSlice"}, Namespace : {NS}, Name : SliceNames,
          OwnerReferences : {<< OwnerRef("Service", "svc1") >>}]
    \cup SecretInputs

RaceDeletes ==
    [Kind : {"GatewayClass"}, Namespace : {""}, Name : {GatewayClassName}]
    \cup [Kind : {"HTTPRoute"}, Namespace : {NS}, Name : {"hr-1"}]
    \cup [Kind : {"Service"}, Namespace : {NS}, Name : ServiceNames]
    \cup [Kind : {"EndpointSlice"}, Namespace : {NS}, Name : SliceNames]

\* (resourceType, nsname) pairs of CaptureDeleteChange
DeleteInputs ==
    [Kind : {"GatewayClass"}, Namespace : {""}, Name : {GatewayClassName, "other-class"}]
    \cup [Kind : {"Gateway"}, Namespace : {NS}, Name : GatewayNames]
    \cup [Kind : {"HTTPRoute"}, Namespace : {NS}, Name : RouteNames]
    \cup [Kind : {"Service"}, Namespace : {NS}, Name : ServiceNames]
    \cup [Kind : {"EndpointSlice"}, Namespace : {NS}, Name : SliceNames]
    \cup [Kind : {"Secret"}, Namespace : {NS}, Name : {"secret"}]

---------------------------------------------------------------------------
(* Map helpers *)

MapPut(m, k, v) == [x \in DOMAIN m \cup {k} |-> IF x = k THEN v ELSE m[x]]

MapDelete(m, k) == [x \in DOMAIN m \ {k} |-> m[x]]

EmptyMap == [x \in {} |-> {}]

SeqToSet(s) == {s[i] : i \in DOMAIN s}

getNamespacedName(obj) == Nsname(obj.Namespace, obj.Name)

---------------------------------------------------------------------------
(* Backend Service extraction, package state: returns a list, one element   *)
(* per rule that yields a Service, duplicates kept.                         *)

RECURSIVE stateBackendServiceNames_routeNamespace(_, _)
stateBackendServiceNames_routeNamespace(ns, rules) ==
    IF rules = <<>> THEN <<>>
    ELSE LET rule == Head(rules)
             rest == stateBackendServiceNames_routeNamespace(ns, Tail(rules))
         IN IF Len(rule.BackendRefs) = 0 THEN rest
            ELSE LET ref == rule.BackendRefs[1]
                 IN IF ref.Kind # <<>> /\ ref.Kind[1] # "Service" THEN rest
                    ELSE <<Nsname(ns, ref.Name)>> \o rest

RECURSIVE stateBackendServiceNames(_, _)
stateBackendServiceNames(ns, rules) ==
    IF rules = <<>> THEN <<>>
    ELSE LET rule == Head(rules)
             rest == stateBackendServiceNames(ns, Tail(rules))
         IN IF Len(rule.BackendRefs) = 0 THEN rest
            ELSE LET ref == rule.BackendRefs[1]
                 IN IF ref.Kind # <<>> /\ ref.Kind[1] # "Service" THEN rest
                    ELSE <<Nsname(IF ref.Namespace # <<>> THEN ref.Namespace[1] ELSE ns,
                                  ref.Name)>> \o rest

getBackendServiceNamesFromRoute(hr) == stateBackendServiceNames(hr.Namespace, hr.Rules)

---------------------------------------------------------------------------
(* The store *)

newStore ==
    [gc |-> <<>>,
     gateways |-> EmptyMap,
     httpRoutes |-> EmptyMap,
     services |-> EmptyMap,
     endpointSlices |-> EmptyMap]

\* updateServicesMap: the loop over svcNames, applied to the services map.
RECURSIVE addRouteToServices(_, _, _)
addRouteToServices(services, svcNames, routeKey) ==
    IF svcNames = <<>> THEN services
    ELSE LET svcNsname == Head(svcNames)
             next == IF svcNsname \notin DOMAIN services
                     THEN MapPut(services, svcNsname, {routeKey})
                     ELSE MapPut(services, svcNsname, services[svcNsname] \cup {routeKey})
         IN addRouteToServices(next, Tail(svcNames), routeKey)

updateServicesMap(st, hr) ==
    [st EXCEPT !.services =
        addRouteToServices(st.services, getBackendServiceNamesFromRoute(hr),
                           getNamespacedName(hr))]

\* removeRouteFromServicesMap: the loop over backendServiceNames.
RECURSIVE dropRouteFromServices(_, _, _)
dropRouteFromServices(services, svcNames, routeKey) ==
    IF svcNames = <<>> THEN services
    ELSE LET svcName == Head(svcNames)
             next == IF svcName \in DOMAIN services
                     THEN LET routesForSvc == services[svcName] \ {routeKey}
                          IN IF Cardinality(routesForSvc) = 0
                             THEN MapDelete(services, svcName)
                             ELSE MapPut(services, svcName, routesForSvc)
                     ELSE services
         IN dropRouteFromServices(next, Tail(svcNames), routeKey)

removeRouteFromServicesMap(st, hr) ==
    [st EXCEPT !.services =
        dropRouteFromServices(st.services, getBackendServiceNamesFromRoute(hr),
                              getNamespacedName(hr))]

updateNeededForEndpointSlice_firstOwner(st, endpointSlice) ==
    /\ Len(endpointSlice.OwnerReferences) > 0
    /\ endpointSlice.OwnerReferences[1].Kind = "Service"
    /\ Nsname(endpointSlice.Namespace, endpointSlice.OwnerReferences[1].Name)
           \in DOMAIN st.services

\* updateNeededForEndpointSlice: some Service owner (in the slice's namespace)
\* is a key of store.services.
updateNeededForEndpointSlice(st, endpointSlice) ==
    \E i \in DOMAIN endpointSlice.OwnerReferences :
        /\ endpointSlice.OwnerReferences[i].Kind = "Service"
        /\ Nsname(endpointSlice.Namespace, endpointSlice.OwnerReferences[i].Name)
               \in DOMAIN st.services

---------------------------------------------------------------------------
(* Capture bodies.  Each returns the new store, the resourceChanged flag    *)
(* and whether the call panicked.                                           *)

Done(st, resourceChanged) ==
    [store |-> st, resourceChanged |-> resourceChanged, panic |-> FALSE]

Panicked(st) == [store |-> st, resourceChanged |-> FALSE, panic |-> TRUE]

captureGatewayClassChange_storeFirst(st, gc) ==
    IF gc.Name # GatewayClassName THEN Panicked([st EXCEPT !.gc = <<gc>>])
    ELSE Done([st EXCEPT !.gc = <<gc>>],
              ~(st.gc # <<>> /\ st.gc[1].Generation = gc.Generation))

captureGatewayClassChange(st, gc) ==
    IF gc.Name # GatewayClassName THEN Panicked(st)
    ELSE Done([st EXCEPT !.gc = <<gc>>],
              ~(st.gc # <<>> /\ st.gc[1].Generation = gc.Generation))

captureGatewayChange_newOnly(st, gw) ==
    Done([st EXCEPT !.gateways = MapPut(st.gateways, getNamespacedName(gw), gw)],
         getNamespacedName(gw) \notin DOMAIN st.gateways)

captureGatewayChange(st, gw) ==
    LET key == getNamespacedName(gw)
        exist == key \in DOMAIN st.gateways
    IN Done([st EXCEPT !.gateways = MapPut(st.gateways, key, gw)],
            ~(exist /\ gw.Generation = st.gateways[key].Generation))

captureHTTPRouteChange_always(st, hr) ==
    Done(updateServicesMap([st EXCEPT !.httpRoutes =
                                MapPut(st.httpRoutes, getNamespacedName(hr), hr)], hr),
         TRUE)

captureHTTPRouteChange(st, hr) ==
    LET key == getNamespacedName(hr)
        exist == key \in DOMAIN st.httpRoutes
    IN Done(updateServicesMap([st EXCEPT !.httpRoutes = MapPut(st.httpRoutes, key, hr)], hr),
            ~(exist /\ hr.Generation = st.httpRoutes[key].Generation))

captureServiceChange_always(st, svc) == Done(st, TRUE)

captureServiceChange(st, svc) ==
    Done(st, getNamespacedName(svc) \in DOMAIN st.services)

captureEndpointSliceChange(st, es) ==
    IF updateNeededForEndpointSlice(st, es)
    THEN Done([st EXCEPT !.endpointSlices =
                   MapPut(st.endpointSlices, getNamespacedName(es), es)], TRUE)
    ELSE Done(st, FALSE)

\* The type switch of CaptureUpsertChange.
upsertSwitch(st, obj) ==
    CASE obj.Kind = "GatewayClass" -> captureGatewayClassChange(st, obj)
      [] obj.Kind = "Gateway" -> captureGatewayChange(st, obj)
      [] obj.Kind = "HTTPRoute" -> captureHTTPRouteChange(st, obj)
      [] obj.Kind = "Service" -> captureServiceChange(st, obj)
      [] obj.Kind = "EndpointSlice" -> captureEndpointSliceChange(st, obj)
      [] OTHER -> Panicked(st)

upsertStoreChanged_overwrite(changed, resourceChanged) == resourceChanged

\* CaptureUpsertChange's last statement.
upsertStoreChanged(changed, resourceChanged) == changed \/ resourceChanged

deleteHTTPRoute(st, nsname) ==
    LET pruned == IF nsname \in DOMAIN st.httpRoutes
                  THEN removeRouteFromServicesMap(st, st.httpRoutes[nsname])
                  ELSE st
    IN [pruned EXCEPT !.httpRoutes = MapDelete(pruned.httpRoutes, nsname)]

deleteEndpointSlice_stored(st, nsname) ==
    Done([st EXCEPT !.endpointSlices = MapDelete(st.endpointSlices, nsname)],
         nsname \in DOMAIN st.endpointSlices)

deleteEndpointSlice(st, nsname) ==
    LET exist == nsname \in DOMAIN st.endpointSlices
    IN Done([st EXCEPT !.endpointSlices = MapDelete(st.endpointSlices, nsname)],
            exist /\ updateNeededForEndpointSlice(st, st.endpointSlices[nsname]))

deleteSwitch_storedOnly(st, kind, nsname) ==
    CASE kind = "GatewayClass" ->
             IF nsname.Name # GatewayClassName THEN Panicked(st)
             ELSE Done([st EXCEPT !.gc = <<>>], st.gc # <<>>)
      [] kind = "Gateway" ->
             Done([st EXCEPT !.gateways = MapDelete(st.gateways, nsname)],
                  nsname \in DOMAIN st.gateways)
      [] kind = "HTTPRoute" ->
             Done(deleteHTTPRoute(st, nsname), nsname \in DOMAIN st.httpRoutes)
      [] kind = "Service" -> Done(st, nsname \in DOMAIN st.services)
      [] kind = "EndpointSlice" -> deleteEndpointSlice(st, nsname)
      [] OTHER -> Panicked(st)

\* The type switch of CaptureDeleteChange.
deleteSwitch(st, kind, nsname) ==
    CASE kind = "GatewayClass" ->
             IF nsname.Name # GatewayClassName THEN Panicked(st)
             ELSE Done([st EXCEPT !.gc = <<>>], TRUE)
      [] kind = "Gateway" ->
             Done([st EXCEPT !.gateways = MapDelete(st.gateways, nsname)], TRUE)
      [] kind = "HTTPRoute" -> Done(deleteHTTPRoute(st, nsname), TRUE)
      [] kind = "Service" -> Done(st, nsname \in DOMAIN st.services)
      [] kind = "EndpointSlice" -> deleteEndpointSlice(st, nsname)
      [] OTHER -> Panicked(st)

deleteStoreChanged_overwrite(changed, resourceChanged) == resourceChanged

\* CaptureDeleteChange's last statement.
deleteStoreChanged(changed, resourceChanged) == changed \/ resourceChanged

---------------------------------------------------------------------------
(* Graph, Configuration and Statuses (package state).                       *)
(*                                                                         *)
(* A Go string is a TLA+ string; Head and Tail take it apart where the      *)
(* code compares strings.  A slice that may be nil is <<>> (nil) or         *)
(* <<elements>>.  A rule index is the Go index (from 0).                    *)

\* The characters of the names, hostnames and paths, in byte order.
CharOrder ==
    <<"*", "-", ".", "/", "0", "1", "2", "3", "4", "5", "6", "7", "8", "9",
      "^", "_", "a", "b", "c", "d", "e", "f", "g", "h", "i", "j", "k", "l", "m",
      "n", "o", "p", "q", "r", "s", "t", "u", "v", "w", "x", "y", "z", "~">>

CharRank(ch) == CHOOSE i \in DOMAIN CharOrder : CharOrder[i] = ch

\* a < b on Go strings: bytewise, a proper prefix first.
RECURSIVE StrLess(_, _)
StrLess(a, b) ==
    IF b = "" THEN FALSE
    ELSE IF a = "" THEN TRUE
    ELSE IF Head(a) = Head(b) THEN StrLess(Tail(a), Tail(b))
    ELSE CharRank(Head(a)) < CharRank(Head(b))

\* (namespace, name) lexicographic order of two keys.
NsnameLess(a, b) ==
    \/ StrLess(a.Namespace, b.Namespace)
    \/ a.Namespace = b.Namespace /\ StrLess(a.Name, b.Name)

\* Deterministic gateway choice: the least key present.
NameBefore(a, b) == a = b \/ NsnameLess(a, b)

\* The elements of S in ascending order of the strict total order Less.
SortSet(S, Less(_, _)) ==
    [i \in 1..Cardinality(S) |->
         CHOOSE x \in S : Cardinality({y \in S : Less(y, x)}) = i - 1]

wildcardHostname == "~^"

InvalidBackendRef == "invalid_backend_ref"

\* backendService{}: the zero value, the invalid sentinel.
InvalidBackendService == [name |-> "", namespace |-> "", port |-> 0]

EmptyConfiguration == [HTTPServers |-> <<>>, SSLServers |-> <<>>, Upstreams |-> <<>>]

EmptyStatuses ==
    [GatewayClassStatus |-> <<>>, GatewayStatus |-> <<>>, HTTPRouteStatuses |-> EmptyMap]

generateUpstreamName_namespaceTested(service) ==
    IF service.namespace = "" THEN InvalidBackendRef
    ELSE service.namespace \o "_" \o service.name \o "_" \o ToString(service.port)

\* fmt.Sprintf("%s_%s_%d", ...): ToString writes the port in decimal.
generateUpstreamName(service) ==
    IF service.name = "" THEN InvalidBackendRef
    ELSE service.namespace \o "_" \o service.name \o "_" \o ToString(service.port)

\* The orders in which a range loop may visit the keys of the Go map m.
IterationOrders(m) ==
    {o \in [1..Cardinality(DOMAIN m) -> DOMAIN m] :
         \A i, j \in DOMAIN o : o[i] = o[j] => i = j}

\* order is the order in which the range loop visits the keys of backends.
buildUpstreams(backends, order) ==
    [i \in 1..Len(order) |->
         [Name |-> generateUpstreamName(order[i]),
          Endpoints |-> backends[order[i]].Endpoints]]

\* The path of a match: "/" for a nil path, a nil value and an empty value.
getPath(path) ==
    IF path = <<>> \/ path[1].Value = <<>> \/ path[1].Value = <<"">> THEN "/"
    ELSE path[1].Value[1]

\* The hostname of a listener: the wildcard for a nil or empty hostname.
getListenerHostname(h) ==
    IF h = <<>> \/ h = <<"">> THEN wildcardHostname ELSE h[1]

listenerContributes_always(l) == TRUE

\* Only a valid listener takes part in the configuration.
listenerContributes(l) == l.Valid

\* The names of the listeners of one protocol that take part.
configListeners(listeners, protocol) ==
    {n \in DOMAIN listeners :
         listenerContributes(listeners[n]) /\ listeners[n].Source.Protocol = protocol}

\* The hostnames under which listener l serves route r: the hostnames of the
\* route, or the hostname of the listener for a route without hostnames, that
\* the listener accepted.
effectiveHostnames(l, r) ==
    {h \in (IF Len(r.Source.Hostnames) = 0
            THEN {getListenerHostname(l.Source.Hostname)}
            ELSE SeqToSet(r.Source.Hostnames)) : h \in l.AcceptedHostnames}

\* The hostnames that routes of the listeners of one protocol are served under.
routedHostnames(listeners, protocol) ==
    UNION {UNION {effectiveHostnames(listeners[n], listeners[n].Routes[k]) :
                      k \in DOMAIN listeners[n].Routes} :
               n \in configListeners(listeners, protocol)}

\* The path of a rule: the path of its first match.
rulePath(rule) ==
    IF Len(rule.Matches) = 0 THEN "/" ELSE getPath(rule.Matches[1].Path)

\* The backendService of a rule of a route: the zero value for an absent key.
ruleBackendService(r, ruleIdx) ==
    IF ruleIdx \in DOMAIN r.BackendServices THEN r.BackendServices[ruleIdx]
    ELSE InvalidBackendService

\* One entry for every rule of every route served under hostname h.
hostRules(listeners, protocol, h) ==
    UNION {UNION {{[Source |-> k,
                    RuleIdx |-> i - 1,
                    Path |-> rulePath(listeners[n].Routes[k].Source.Rules[i]),
                    UpstreamName |->
                        generateUpstreamName(
                            ruleBackendService(listeners[n].Routes[k], i - 1))] :
                      i \in DOMAIN listeners[n].Routes[k].Source.Rules} :
                     k \in {j \in DOMAIN listeners[n].Routes :
                                h \in effectiveHostnames(listeners[n],
                                                         listeners[n].Routes[j])}} :
               n \in configListeners(listeners, protocol)}

matchRuleLess_byName(a, b) ==
    \/ StrLess(a.Source.Name, b.Source.Name)
    \/ a.Source.Name = b.Source.Name /\ a.RuleIdx < b.RuleIdx

\* Routes in (namespace, name) order, the rules of a route in their order.
matchRuleLess(a, b) ==
    \/ NsnameLess(a.Source, b.Source)
    \/ a.Source = b.Source /\ a.RuleIdx < b.RuleIdx

buildMatchRules(rules) ==
    LET sorted == SortSet(rules, matchRuleLess)
    IN [i \in DOMAIN sorted |->
            [MatchIdx |-> 0,
             RuleIdx |-> sorted[i].RuleIdx,
             UpstreamName |-> sorted[i].UpstreamName,
             Source |-> sorted[i].Source]]

\* One PathRule for every path of the rules, in ascending order of the path.
buildPathRules(rules) ==
    LET paths == SortSet({r.Path : r \in rules}, StrLess)
    IN [i \in DOMAIN paths |->
            [Path |-> paths[i],
             MatchRules |-> buildMatchRules({r \in rules : r.Path = paths[i]})]]

hostnameLess_descending(a, b) == StrLess(b, a)

\* Ascending hostnames, the wildcard after every other hostname.
hostnameLess(a, b) ==
    IF a = wildcardHostname THEN FALSE
    ELSE IF b = wildcardHostname THEN TRUE
    ELSE StrLess(a, b)

buildHTTPServers(listeners) ==
    LET hostnames == SortSet(routedHostnames(listeners, "HTTP"), hostnameLess)
    IN [i \in DOMAIN hostnames |->
            [Hostname |-> hostnames[i],
             SSL |-> <<>>,
             PathRules |-> buildPathRules(hostRules(listeners, "HTTP", hostnames[i]))]]

\* The HTTPS listener whose certificate the server of hostname h presents:
\* one that serves a route under h, else one whose hostname is h, else any;
\* the first in name order.
certificateListener(listeners, h) ==
    LET https == configListeners(listeners, "HTTPS")
        routing == {n \in https :
                        \E k \in DOMAIN listeners[n].Routes :
                            h \in effectiveHostnames(listeners[n], listeners[n].Routes[k])}
        named == {n \in https : getListenerHostname(listeners[n].Source.Hostname) = h}
        among == IF routing # {} THEN routing ELSE IF named # {} THEN named ELSE https
    IN CHOOSE n \in among : \A m \in among : n = m \/ StrLess(n, m)

\* The hostnames of the SSL servers: those of the routes, those of the HTTPS
\* listeners, and the wildcard when there is an HTTPS listener.
sslHostnames(listeners) ==
    routedHostnames(listeners, "HTTPS")
        \cup {getListenerHostname(listeners[n].Source.Hostname) :
                  n \in configListeners(listeners, "HTTPS")}
        \cup (IF configListeners(listeners, "HTTPS") # {} THEN {wildcardHostname} ELSE {})

buildSSLServers(listeners) ==
    LET hostnames == SortSet(sslHostnames(listeners), hostnameLess)
    IN [i \in DOMAIN hostnames |->
            [Hostname |-> hostnames[i],
             SSL |-> << [CertificatePath |->
                             listeners[certificateListener(listeners, hostnames[i])]
                                 .SecretPath] >>,
             PathRules |-> buildPathRules(hostRules(listeners, "HTTPS", hostnames[i]))]]

buildConfiguration_anyClass(g, order) ==
    IF g.GatewayClass = <<>> \/ g.Gateway = <<>> THEN EmptyConfiguration
    ELSE [HTTPServers |-> buildHTTPServers(g.Gateway[1].Listeners),
          SSLServers |-> buildSSLServers(g.Gateway[1].Listeners),
          Upstreams |-> buildUpstreams(g.Backends, order)]

\* order is the order in which buildUpstreams visits the keys of g.Backends.
buildConfiguration(g, order) ==
    IF g.GatewayClass = <<>> \/ g.Gateway = <<>> THEN EmptyConfiguration
    ELSE IF ~g.GatewayClass[1].Valid THEN EmptyConfiguration
    ELSE [HTTPServers |-> buildHTTPServers(g.Gateway[1].Listeners),
          SSLServers |-> buildSSLServers(g.Gateway[1].Listeners),
          Upstreams |-> buildUpstreams(g.Backends, order)]

\* The ServiceStore of the processor's configuration: the Services it knows
\* and the endpoints it resolves for them (nil when the resolution fails).
ServiceStoreEndpoints ==
    ([name |-> "svc1", namespace |-> NS, port |-> 80] :>
         << << [Address |-> "10.0.0.0", Port |-> 8080] >> >>)
    @@ ([name |-> "svc2", namespace |-> NS, port |-> 80] :> <<>>)

\* The SecretMemoryManager of the processor's configuration: the path of a
\* secret on disk.
secretPath(ref) == "/etc/nginx/secrets/" \o ref.Name

\* Listener validation: HTTP, or HTTPS that terminates TLS with a certificate.
validListener(l) ==
    CASE l.Protocol = "HTTP" -> TRUE
      [] l.Protocol = "HTTPS" ->
             /\ l.TLS # <<>>
             /\ l.TLS[1].Mode = <<"Terminate">>
             /\ Len(l.TLS[1].CertificateRefs) >= 1
      [] OTHER -> FALSE

\* The hostnames of route hr that listener l accepts.
acceptedHostnames(l, hr) ==
    IF Len(hr.Hostnames) = 0 THEN {getListenerHostname(l.Hostname)}
    ELSE IF getListenerHostname(l.Hostname) = wildcardHostname THEN SeqToSet(hr.Hostnames)
    ELSE {h \in SeqToSet(hr.Hostnames) : h = l.Hostname[1]}

\* The section names of the parentRefs of hr that name the gateway.
sectionNameRefs(hr, gwKey) ==
    {hr.ParentRefs[i].SectionName[1] :
         i \in {j \in DOMAIN hr.ParentRefs :
                    /\ hr.ParentRefs[j].SectionName # <<>>
                    /\ hr.ParentRefs[j].Name = gwKey.Name
                    /\ (IF hr.ParentRefs[j].Namespace = <<>> THEN hr.Namespace
                        ELSE hr.ParentRefs[j].Namespace[1]) = gwKey.Namespace}}

\* A route binds to a listener it names when the listener is valid and
\* accepts one of its hostnames.
binds(hr, gwKey, l) ==
    /\ l.Name \in sectionNameRefs(hr, gwKey)
    /\ validListener(l)
    /\ acceptedHostnames(l, hr) # {}

\* The backendService of a rule: its first backendRef, when that names a
\* Service the ServiceStore knows; the invalid sentinel otherwise.
backendServiceOf(hr, rule) ==
    IF Len(rule.BackendRefs) = 0 THEN InvalidBackendService
    ELSE LET ref == rule.BackendRefs[1]
             svc == [name |-> ref.Name,
                     namespace |-> IF ref.Namespace # <<>> THEN ref.Namespace[1]
                                   ELSE hr.Namespace,
                     port |-> IF ref.Port # <<>> THEN ref.Port[1] ELSE 0]
         IN IF /\ ref.Kind \in {<<>>, <<"Service">>}
               /\ ref.Port # <<>>
               /\ svc \in DOMAIN ServiceStoreEndpoints
            THEN svc
            ELSE InvalidBackendService

\* The node of a route; gw is the chosen gateway (<<>> when there is none).
routeNode(hr, gw) ==
    LET listeners == IF gw = <<>> THEN {} ELSE SeqToSet(gw[1].Listeners)
        refs == IF gw = <<>> THEN {} ELSE sectionNameRefs(hr, getNamespacedName(gw[1]))
        valid == {l.Name : l \in {m \in listeners : binds(hr, getNamespacedName(gw[1]), m)}}
    IN [Source |-> hr,
        ValidSectionNameRefs |-> valid,
        InvalidSectionNameRefs |-> refs \ valid,
        BackendServices |->
            [i \in 0..(Len(hr.Rules) - 1) |-> backendServiceOf(hr, hr.Rules[i + 1])]]

\* The node of a listener of the chosen gateway with the routes bound to it.
listenerNode(l, gw, routes) ==
    LET bound == {k \in DOMAIN routes : binds(routes[k], getNamespacedName(gw[1]), l)}
    IN [Source |-> l,
        Valid |-> validListener(l),
        Routes |-> [k \in bound |-> routeNode(routes[k], gw)],
        AcceptedHostnames |-> UNION {acceptedHostnames(l, routes[k]) : k \in bound},
        SecretPath |-> IF l.Protocol = "HTTPS" /\ validListener(l)
                       THEN secretPath(l.TLS[1].CertificateRefs[1])
                       ELSE ""]

buildGraph(st) ==
    LET managed == {k \in DOMAIN st.gateways :
                        st.gateways[k].GatewayClassName = GatewayClassName}
        gw == IF managed = {} THEN <<>>
              ELSE << st.gateways[CHOOSE k \in managed :
                                      \A j \in managed : NameBefore(k, j)] >>
        routes == [k \in DOMAIN st.httpRoutes |-> routeNode(st.httpRoutes[k], gw)]
        used == UNION {{routes[k].BackendServices[i] : i \in DOMAIN routes[k].BackendServices} :
                           k \in DOMAIN routes} \ {InvalidBackendService}
    IN [GatewayClass |->
            IF st.gc = <<>> THEN <<>>
            ELSE << [Source |-> st.gc[1],
                     Valid |-> st.gc[1].ControllerName = GatewayCtlrName] >>,
        Gateway |->
            IF gw = <<>> THEN <<>>
            ELSE << [Source |-> gw[1],
                     Listeners |->
                         [n \in {l.Name : l \in SeqToSet(gw[1].Listeners)} |->
                              listenerNode(CHOOSE l \in SeqToSet(gw[1].Listeners) : l.Name = n,
                                           gw, st.httpRoutes)]] >>,
        Routes |-> routes,
        Backends |-> [svc \in used |-> [Endpoints |-> ServiceStoreEndpoints[svc]]]]

buildStatuses(g) ==
    [GatewayClassStatus |->
         IF g.GatewayClass = <<>> THEN <<>>
         ELSE << [Valid |-> g.GatewayClass[1].Valid,
                  ObservedGeneration |-> g.GatewayClass[1].Source.Generation] >>,
     GatewayStatus |->
         IF g.Gateway = <<>> THEN <<>>
         ELSE << [Name |-> g.Gateway[1].Source.Name,
                  ObservedGeneration |-> g.Gateway[1].Source.Generation] >>,
     HTTPRouteStatuses |->
         [k \in DOMAIN g.Routes |-> [ObservedGeneration |-> g.Routes[k].Source.Generation]]]

---------------------------------------------------------------------------
(* The goroutines *)

NoLast ==
    [op |-> "none", kind |-> "", hit |-> FALSE, panic |-> FALSE, was |-> FALSE,
     afterDelete |-> FALSE]

NoRet == [changed |-> FALSE, conf |-> EmptyConfiguration, statuses |-> EmptyStatuses]

NoObs == [pending |-> FALSE, quiet |-> FALSE, snap |-> <<>>]

crashed == \E t \in Threads : pc[t] = "panicked"

lockFree_always == TRUE

\* sync.Mutex.Lock returns only when the mutex is free.
lockFree == ~locked

lockAfterCheck_released == FALSE

\* Unlock is deferred to the return of Process: the lock taken on entry stays
\* held after the check.
lockAfterCheck == TRUE

clearedStoreChanged_kept(changed) == changed

\* Process resets the flag it found set.
clearedStoreChanged(changed) == FALSE

unchangedResult_built(st) ==
    [changed |-> FALSE,
     conf |-> buildConfiguration(buildGraph(st),
                                 CHOOSE o \in IterationOrders(buildGraph(st).Backends) : TRUE),
     statuses |-> buildStatuses(buildGraph(st))]

\* Process returns its named results untouched when nothing changed.
unchangedResult(st) == NoRet

\* What an upsert finds under the object's key.
upsertHit(st, obj) ==
    CASE obj.Kind = "GatewayClass" ->
             st.gc # <<>> /\ st.gc[1].Generation = obj.Generation
      [] obj.Kind = "Gateway" ->
             /\ getNamespacedName(obj) \in DOMAIN st.gateways
             /\ st.gateways[getNamespacedName(obj)].Generation = obj.Generation
      [] obj.Kind = "HTTPRoute" ->
             /\ getNamespacedName(obj) \in DOMAIN st.httpRoutes
             /\ st.httpRoutes[getNamespacedName(obj)].Generation = obj.Generation
      [] obj.Kind = "Service" -> getNamespacedName(obj) \in DOMAIN st.services
      [] obj.Kind = "EndpointSlice" -> updateNeededForEndpointSlice(st, obj)
      [] OTHER -> FALSE

\* What a delete finds under the key.
deleteHit(st, kind, nsname) ==
    CASE kind = "GatewayClass" -> st.gc # <<>>
      [] kind = "Gateway" -> nsname \in DOMAIN st.gateways
      [] kind = "HTTPRoute" -> nsname \in DOMAIN st.httpRoutes
      [] kind = "Service" -> nsname \in DOMAIN st.services
      [] kind = "EndpointSlice" -> nsname \in DOMAIN st.endpointSlices
      [] OTHER -> FALSE

\* The GatewayClass or Gateway a delete finds under the key (<<>> if none).
deletedObject(st, kind, nsname) ==
    CASE kind = "GatewayClass" -> st.gc
      [] kind = "Gateway" ->
             IF nsname \in DOMAIN st.gateways THEN <<st.gateways[nsname]>> ELSE <<>>
      [] OTHER -> <<>>

\* The API server changes an object's Generation whenever its spec changes:
\* an object delivered with the Generation of the stored one is the stored one.
Delivered(obj) ==
    CASE obj.Kind = "GatewayClass" ->
             (store.gc # <<>> /\ store.gc[1].Name = obj.Name
                  /\ store.gc[1].Generation = obj.Generation) => store.gc[1] = obj
      [] obj.Kind = "Gateway" ->
             upsertHit(store, obj) => store.gateways[getNamespacedName(obj)] = obj
      [] obj.Kind = "HTTPRoute" ->
             upsertHit(store, obj) => store.httpRoutes[getNamespacedName(obj)] = obj
      [] OTHER -> TRUE

\* The processor and the tracker after construction.
InitEngine ==
    /\ store = newStore
    /\ storeChanged = FALSE
    /\ locked = FALSE
    /\ pc = [t \in Threads |-> "idle"]
    /\ op = [t \in Threads |-> "none"]
    /\ last = [t \in Threads |-> NoLast]
    /\ ret = [t \in Threads |-> NoRet]
    /\ graph = [t \in Threads |-> <<>>]
    /\ obs = [t \in Threads |-> NoObs]
    /\ pending = FALSE
    /\ quiet = FALSE
    /\ gone = <<>>
    /\ delivered = EmptyMap
    /\ routesToServices = EmptyMap
    /\ serviceRefCount = EmptyMap
    /\ endpointSliceOwners = EmptyMap
    /\ captured = EmptyMap
    /\ roundTrip = <<>>

\* The state after construction: no resolver call is in progress.
Init ==
    /\ InitEngine
    /\ resolverArgs = <<>>
    /\ resolveResult = <<>>
    /\ targetPortResult = <<>>
    /\ builderArgs = <<>>
    /\ builderResult = <<>>

\* A goroutine calls one of the three methods.
Call(t, o) ==
    /\ ~crashed
    /\ pc[t] = "idle"
    /\ pc' = [pc EXCEPT ![t] = "lock"]
    /\ op' = [op EXCEPT ![t] = o]
    /\ UNCHANGED <<store, storeChanged, locked, last, ret, graph, obs, pending, quiet, gone,
                   delivered>>
    /\ UNCHANGED <<trackerVars, resolverVars, builderVars>>

\* CaptureUpsertChange: c.lock.Lock() and the body, up to the deferred Unlock.
CaptureUpsertChange(t, obj) ==
    /\ ~crashed
    /\ pc[t] = "lock"
    /\ op[t] = "upsert"
    /\ lockFree
    /\ locked' = TRUE
    /\ LET r == upsertSwitch(store, obj)
       IN /\ store' = r.store
          /\ storeChanged' = IF r.panic THEN storeChanged
                             ELSE upsertStoreChanged(storeChanged, r.resourceChanged)
          /\ pending' = (pending \/ (~r.panic /\ r.resourceChanged))
          /\ last' = [last EXCEPT ![t] =
                 [op |-> "upsert", kind |-> obj.Kind,
                  hit |-> upsertHit(store, obj), panic |-> r.panic,
                  was |-> storeChanged, afterDelete |-> gone = <<obj>>]]
    /\ gone' = <<>>
    /\ delivered' = IF obj.Kind = "EndpointSlice"
                    THEN MapPut(delivered, getNamespacedName(obj), obj)
                    ELSE delivered
    /\ quiet' = FALSE
    /\ pc' = [pc EXCEPT ![t] = "unlock"]
    /\ UNCHANGED <<op, ret, graph, obs>>
    /\ UNCHANGED <<trackerVars, resolverVars, builderVars>>

\* CaptureDeleteChange: c.lock.Lock() and the body, up to the deferred Unlock.
CaptureDeleteChange(t, kind, nsname) ==
    /\ ~crashed
    /\ pc[t] = "lock"
    /\ op[t] = "delete"
    /\ lockFree
    /\ locked' = TRUE
    /\ LET r == deleteSwitch(store, kind, nsname)
       IN /\ store' = r.store
          /\ storeChanged' = IF r.panic THEN storeChanged
                             ELSE deleteStoreChanged(storeChanged, r.resourceChanged)
          /\ pending' = (pending \/ (~r.panic /\ r.resourceChanged))
          /\ last' = [last EXCEPT ![t] =
                 [op |-> "delete", kind |-> kind,
                  hit |-> deleteHit(store, kind, nsname), panic |-> r.panic,
                  was |-> storeChanged, afterDelete |-> FALSE]]
          /\ gone' = IF r.panic THEN <<>> ELSE deletedObject(store, kind, nsname)
    /\ delivered' = IF kind = "EndpointSlice" THEN MapDelete(delivered, nsname) ELSE delivered
    /\ quiet' = FALSE
    /\ pc' = [pc EXCEPT ![t] = "unlock"]
    /\ UNCHANGED <<op, ret, graph, obs>>
    /\ UNCHANGED <<trackerVars, resolverVars, builderVars>>

\* Process: c.lock.Lock(), the test of storeChanged and, when set, its reset.
ProcessCheck(t) ==
    /\ ~crashed
    /\ pc[t] = "lock"
    /\ op[t] = "process"
    /\ lockFree
    /\ IF ~storeChanged
       THEN /\ pc' = [pc EXCEPT ![t] = "unlock"]
            /\ ret' = [ret EXCEPT ![t] = unchangedResult(store)]
            /\ UNCHANGED storeChanged
       ELSE /\ storeChanged' = clearedStoreChanged(storeChanged)
            /\ pc' = [pc EXCEPT ![t] = "build"]
            /\ UNCHANGED ret
    /\ locked' = lockAfterCheck
    /\ obs' = [obs EXCEPT ![t] = [pending |-> pending, quiet |-> quiet, snap |-> <<store>>]]
    /\ pending' = FALSE
    /\ quiet' = TRUE
    /\ UNCHANGED <<store, op, last, graph, gone, delivered>>
    /\ UNCHANGED <<trackerVars, resolverVars, builderVars>>

ProcessBuild_storeCleared(t) ==
    /\ ~crashed
    /\ pc[t] = "build"
    /\ LET g == buildGraph(store)
       IN /\ graph' = [graph EXCEPT ![t] = <<g>>]
          /\ \E order \in IterationOrders(g.Backends) :
                 ret' = [ret EXCEPT ![t] = [changed |-> TRUE,
                                           conf |-> buildConfiguration(g, order),
                                           statuses |-> buildStatuses(g)]]
    /\ store' = newStore
    /\ pc' = [pc EXCEPT ![t] = "unlock"]
    /\ UNCHANGED <<storeChanged, locked, op, last, obs, pending, quiet, gone, delivered>>
    /\ UNCHANGED <<trackerVars, resolverVars, builderVars>>

\* Process: buildGraph, buildConfiguration, buildStatuses and the results;
\* the runtime chooses the order in which buildUpstreams visits the backends.
ProcessBuild(t) ==
    /\ ~crashed
    /\ pc[t] = "build"
    /\ LET g == buildGraph(store)
       IN /\ graph' = [graph EXCEPT ![t] = <<g>>]
          /\ \E order \in IterationOrders(g.Backends) :
                 ret' = [ret EXCEPT ![t] = [changed |-> TRUE,
                                           conf |-> buildConfiguration(g, order),
                                           statuses |-> buildStatuses(g)]]
    /\ pc' = [pc EXCEPT ![t] = "unlock"]
    /\ UNCHANGED <<store, storeChanged, locked, op, last, obs, pending, quiet, gone, delivered>>
    /\ UNCHANGED <<trackerVars, resolverVars, builderVars>>

\* The deferred c.lock.Unlock() and the return (or the panic leaving the call).
Unlock(t) ==
    /\ ~crashed
    /\ pc[t] = "unlock"
    /\ locked' = FALSE
    /\ pc' = [pc EXCEPT ![t] = IF last[t].panic THEN "panicked" ELSE "idle"]
    /\ op' = [op EXCEPT ![t] = "none"]
    /\ last' = [last EXCEPT ![t] = NoLast]
    /\ ret' = [ret EXCEPT ![t] = NoRet]
    /\ graph' = [graph EXCEPT ![t] = <<>>]
    /\ obs' = [obs EXCEPT ![t] = NoObs]
    /\ UNCHANGED <<store, storeChanged, pending, quiet, gone, delivered>>
    /\ UNCHANGED <<trackerVars, resolverVars, builderVars>>

Methods == {"upsert", "delete", "process"}

\* Concurrent callers: every interleaving of the goroutines in Threads, each
\* calling any of the three methods, over the events of RaceUpserts and
\* RaceDeletes.
Next ==
    \E t \in Threads :
        \/ \E o \in Methods : Call(t, o)
        \/ \E obj \in RaceUpserts : Delivered(obj) /\ CaptureUpsertChange(t, obj)
        \/ \E d \in RaceDeletes :
               CaptureDeleteChange(t, d.Kind, Nsname(d.Namespace, d.Name))
        \/ ProcessCheck(t)
        \/ ProcessBuild(t)
        \/ Unlock(t)

Spec == Init /\ [][Next]_vars

\* One caller replaying every sequence of the events of UpsertInputs and
\* DeleteInputs, with Process calls in between.
NextReplay ==
    \/ \E o \in Methods : Call(Caller, o)
    \/ \E obj \in UpsertInputs : Delivered(obj) /\ CaptureUpsertChange(Caller, obj)
    \/ \E d \in DeleteInputs :
           CaptureDeleteChange(Caller, d.Kind, Nsname(d.Namespace, d.Name))
    \/ ProcessCheck(Caller)
    \/ ProcessBuild(Caller)
    \/ Unlock(Caller)

SpecReplay == Init /\ [][NextReplay]_vars

---------------------------------------------------------------------------
(* The relationship tracker (Capturer) *)

\* Backend Service extraction, package relationship: returns a set.
RECURSIVE relationshipBackendServiceNames_allRefs(_, _)
relationshipBackendServiceNames_allRefs(ns, rules) ==
    IF rules = <<>> THEN {}
    ELSE {Nsname(IF Head(rules).BackendRefs[i].Namespace # <<>>
                 THEN Head(rules).BackendRefs[i].Namespace[1] ELSE ns,
                 Head(rules).BackendRefs[i].Name) :
              i \in {j \in DOMAIN Head(rules).BackendRefs :
                         Head(rules).BackendRefs[j].Kind \in {<<>>, <<"Service">>}}}
         \cup relationshipBackendServiceNames_allRefs(ns, Tail(rules))

RECURSIVE relationshipBackendServiceNames(_, _)
relationshipBackendServiceNames(ns, rules) ==
    IF rules = <<>> THEN {}
    ELSE LET rule == Head(rules)
             rest == relationshipBackendServiceNames(ns, Tail(rules))
         IN IF Len(rule.BackendRefs) = 0 THEN rest
            ELSE LET ref == rule.BackendRefs[1]
                 IN IF ref.Kind # <<>> /\ ref.Kind[1] # "Service" THEN rest
                    ELSE {Nsname(IF ref.Namespace # <<>> THEN ref.Namespace[1] ELSE ns,
                                 ref.Name)} \cup rest

relationshipGetBackendServiceNamesFromRoute(hr) ==
    relationshipBackendServiceNames(hr.Namespace, hr.Rules)

\* sdk.GetServiceNameFromEndpointSlice: the name of the Service owner, "" if none.
RECURSIVE firstServiceOwner(_)
firstServiceOwner(owners) ==
    IF owners = <<>> THEN ""
    ELSE IF Head(owners).Kind = "Service" THEN Head(owners).Name
    ELSE firstServiceOwner(Tail(owners))

GetServiceNameFromEndpointSlice(es) == firstServiceOwner(es.OwnerReferences)

\* A read of a Go map[K]int: the zero value for an absent key.
MapGetInt(m, k) == IF k \in DOMAIN m THEN m[k] ELSE 0

\* A read of a Go map[K]map[...]struct{}: the nil (empty) set for an absent key.
MapGetSet(m, k) == IF k \in DOMAIN m THEN m[k] ELSE {}

decrementRefCount_keepZero(counts, svcName) ==
    MapPut(counts, svcName, MapGetInt(counts, svcName) - 1)

decrementRefCount(counts, svcName) ==
    IF MapGetInt(counts, svcName) = 1
    THEN MapDelete(counts, svcName)
    ELSE MapPut(counts, svcName, MapGetInt(counts, svcName) - 1)

incrementRefCount(counts, svc) == MapPut(counts, svc, MapGetInt(counts, svc) + 1)

\* A range loop applying decrementRefCount to every element of svcs.
RECURSIVE decrementAll(_, _)
decrementAll(counts, svcs) ==
    IF svcs = {} THEN counts
    ELSE LET svc == CHOOSE x \in svcs : TRUE
         IN decrementAll(decrementRefCount(counts, svc), svcs \ {svc})

\* A range loop incrementing the count of every element of svcs.
RECURSIVE incrementAll(_, _)
incrementAll(counts, svcs) ==
    IF svcs = {} THEN counts
    ELSE LET svc == CHOOSE x \in svcs : TRUE
         IN incrementAll(incrementRefCount(counts, svc), svcs \ {svc})

\* The services whose count upsertForRoute decrements.
upsertDecremented(oldServices, newServices) == oldServices \ newServices

upsertIncremented_all(oldServices, newServices) == newServices

\* The services whose count upsertForRoute increments.
upsertIncremented(oldServices, newServices) == newServices \ oldServices

\* The Capturer c: its three maps.
Capturer ==
    [routesToServices |-> routesToServices,
     serviceRefCount |-> serviceRefCount,
     endpointSliceOwners |-> endpointSliceOwners]

\* The Capturer after c.upsertForRoute(route).
upsertForRouteOn(c, route) ==
    LET key == getNamespacedName(route)
        oldServices == MapGetSet(c.routesToServices, key)
        newServices == relationshipGetBackendServiceNamesFromRoute(route)
    IN [c EXCEPT
           !.serviceRefCount =
               incrementAll(decrementAll(c.serviceRefCount,
                                         upsertDecremented(oldServices, newServices)),
                            upsertIncremented(oldServices, newServices)),
           !.routesToServices = MapPut(c.routesToServices, key, newServices)]

upsertForRoute(route) ==
    LET c == upsertForRouteOn(Capturer, route)
    IN /\ serviceRefCount' = c.serviceRefCount
       /\ routesToServices' = c.routesToServices
       /\ UNCHANGED endpointSliceOwners

CaptureOn_referencedOwner(c, obj) ==
    CASE obj.Kind = "HTTPRoute" -> upsertForRouteOn(c, obj)
      [] obj.Kind = "EndpointSlice" ->
             LET svcName == GetServiceNameFromEndpointSlice(obj)
             IN IF svcName # "" /\ MapGetInt(c.serviceRefCount,
                                             Nsname(obj.Namespace, svcName)) > 0
                THEN [c EXCEPT !.endpointSliceOwners =
                          MapPut(c.endpointSliceOwners, getNamespacedName(obj),
                                 Nsname(obj.Namespace, svcName))]
                ELSE c
      [] OTHER -> c

\* The Capturer after c.Capture(obj).
CaptureOn(c, obj) ==
    CASE obj.Kind = "HTTPRoute" -> upsertForRouteOn(c, obj)
      [] obj.Kind = "EndpointSlice" ->
             LET svcName == GetServiceNameFromEndpointSlice(obj)
             IN IF svcName # ""
                THEN [c EXCEPT !.endpointSliceOwners =
                          MapPut(c.endpointSliceOwners, getNamespacedName(obj),
                                 Nsname(obj.Namespace, svcName))]
                ELSE c
      [] OTHER -> c

\* c.Exists(resourceType, nsname).
ExistsOn(c, kind, nsname) ==
    CASE kind = "Service" -> MapGetInt(c.serviceRefCount, nsname) > 0
      [] kind = "EndpointSlice" ->
             /\ nsname \in DOMAIN c.endpointSliceOwners
             /\ MapGetInt(c.serviceRefCount, c.endpointSliceOwners[nsname]) > 0
      [] OTHER -> FALSE

deleteForRoute_allRoutes(routeName) ==
    /\ serviceRefCount' = decrementAll(serviceRefCount, MapGetSet(routesToServices, routeName))
    /\ routesToServices' = EmptyMap
    /\ UNCHANGED endpointSliceOwners

deleteForRoute(routeName) ==
    /\ serviceRefCount' = decrementAll(serviceRefCount, MapGetSet(routesToServices, routeName))
    /\ routesToServices' = MapDelete(routesToServices, routeName)
    /\ UNCHANGED endpointSliceOwners

\* Objects handed to the tracker.
TrackerRoutes ==
    [Kind : {"HTTPRoute"}, Namespace : {NS}, Name : RouteNames, Generation : {1},
     Rules : RulesCatalog \cup
             { <<>>, << Rule(<< Ref(<<"Service">>, <<"other">>, "svc1") >>) >> }]

TrackerSlices ==
    [Kind : {"EndpointSlice"}, Namespace : {NS}, Name : {"es-1", "es-2"},
     OwnerReferences : OwnersCatalog \cup { << OwnerRef("Deployment", "svc1") >> }]

TrackerInputs == TrackerRoutes \cup TrackerSlices \cup ServiceInputs

TrackerKeys ==
    {[Kind |-> o.Kind, Namespace |-> o.Namespace, Name |-> o.Name] : o \in TrackerInputs}

\* The tracker before a Capture of route obj, remembered until the next call.
CaptureStarted(obj) ==
    << [phase |-> "captured", route |-> obj,
        fresh |-> getNamespacedName(obj) \notin DOMAIN routesToServices,
        routesToServices |-> routesToServices,
        serviceRefCount |-> serviceRefCount,
        endpointSliceOwners |-> endpointSliceOwners] >>

Capture(obj) ==
    /\ CASE obj.Kind = "HTTPRoute" ->
                /\ upsertForRoute(obj)
                /\ captured' = MapPut(captured, getNamespacedName(obj), obj)
                /\ roundTrip' = CaptureStarted(obj)
         [] obj.Kind = "EndpointSlice" ->
                /\ endpointSliceOwners' = CaptureOn(Capturer, obj).endpointSliceOwners
                /\ roundTrip' = <<>>
                /\ UNCHANGED <<routesToServices, serviceRefCount, captured>>
         [] OTHER ->
                /\ roundTrip' = <<>>
                /\ UNCHANGED <<routesToServices, serviceRefCount, endpointSliceOwners,
                               captured>>
    /\ delivered' = IF obj.Kind = "EndpointSlice"
                    THEN MapPut(delivered, getNamespacedName(obj), obj)
                    ELSE delivered
    /\ UNCHANGED <<store, storeChanged, locked, pc, op, last, ret, graph, obs, pending, quiet,
                   gone>>
    /\ UNCHANGED <<resolverVars, builderVars>>

Remove(kind, nsname) ==
    /\ CASE kind = "HTTPRoute" ->
                /\ deleteForRoute(nsname)
                /\ captured' = MapDelete(captured, nsname)
                /\ roundTrip' =
                       IF /\ roundTrip # <<>>
                          /\ roundTrip[1].phase = "captured"
                          /\ getNamespacedName(roundTrip[1].route) = nsname
                       THEN << [roundTrip[1] EXCEPT !.phase = "removed"] >>
                       ELSE <<>>
         [] kind = "EndpointSlice" ->
                /\ endpointSliceOwners' = MapDelete(endpointSliceOwners, nsname)
                /\ roundTrip' = <<>>
                /\ UNCHANGED <<routesToServices, serviceRefCount, captured>>
         [] OTHER ->
                /\ roundTrip' = <<>>
                /\ UNCHANGED <<routesToServices, serviceRefCount, endpointSliceOwners,
                               captured>>
    /\ delivered' = IF kind = "EndpointSlice" THEN MapDelete(delivered, nsname) ELSE delivered
    /\ UNCHANGED <<store, storeChanged, locked, pc, op, last, ret, graph, obs, pending, quiet,
                   gone>>
    /\ UNCHANGED <<resolverVars, builderVars>>

Exists_ownerRecorded(kind, nsname) ==
    CASE kind = "Service" -> MapGetInt(serviceRefCount, nsname) > 0
      [] kind = "EndpointSlice" -> nsname \in DOMAIN endpointSliceOwners
      [] OTHER -> FALSE

Exists(kind, nsname) == ExistsOn(Capturer, kind, nsname)

NextTracker ==
    \/ \E obj \in TrackerInputs : Capture(obj)
    \/ \E k \in TrackerKeys : Remove(k.Kind, Nsname(k.Namespace, k.Name))

SpecTracker == Init /\ [][NextTracker]_vars

\* The HTTPRoutes both are fed: each route name in every generation with
\* every rule list.
MirrorRoutes ==
    {[hr EXCEPT !.Name = name, !.Rules = r.Rules] :
         hr \in {h \in HTTPRouteInputs : h.Name = "hr-1" /\ h.Rules = RulesSvc1},
         name \in RouteNames, r \in TrackerRoutes}

\* A ChangeProcessor and a Capturer fed the same HTTPRoute events by one
\* caller: CaptureUpsertChange(hr) on the one and Capture(hr) on the other.
MirrorUpsert(hr) ==
    /\ Delivered(hr)
    /\ LET r == upsertSwitch(store, hr)
       IN /\ store' = r.store
          /\ storeChanged' = upsertStoreChanged(storeChanged, r.resourceChanged)
    /\ upsertForRoute(hr)
    /\ captured' = MapPut(captured, getNamespacedName(hr), hr)
    /\ roundTrip' = <<>>
    /\ UNCHANGED <<locked, pc, op, last, ret, graph, obs, pending, quiet, gone, delivered>>
    /\ UNCHANGED <<resolverVars, builderVars>>

\* CaptureDeleteChange(HTTPRoute, nsname) on the one and Remove on the other.
MirrorDelete(nsname) ==
    /\ LET r == deleteSwitch(store, "HTTPRoute", nsname)
       IN /\ store' = r.store
          /\ storeChanged' = deleteStoreChanged(storeChanged, r.resourceChanged)
    /\ deleteForRoute(nsname)
    /\ captured' = MapDelete(captured, nsname)
    /\ roundTrip' = <<>>
    /\ UNCHANGED <<locked, pc, op, last, ret, graph, obs, pending, quiet, gone, delivered>>
    /\ UNCHANGED <<resolverVars, builderVars>>

NextMirror ==
    \/ \E hr \in MirrorRoutes : MirrorUpsert(hr)
    \/ \E name \in RouteNames : MirrorDelete(Nsname(NS, name))

SpecMirror == Init /\ [][NextMirror]_vars

---------------------------------------------------------------------------
(* The Endpoint Resolver (package resolver)                                *)
(*                                                                         *)
(* A Go int (64 bits) is a record [neg, hi, lo] standing for the value      *)
(* +-(hi * HalfWord + lo) with lo < HalfWord, so that the conversion to     *)
(* int32 keeps its width.  An int32 is an integer.  A Go string that is     *)
(* parsed is a sequence of one-character strings.  A slice that may be nil  *)
(* is <<>> (nil) or <<elements>>.                                           *)

\* EndpointSlice lists that List returns have at most MaxItems items.
MaxItems == 2

\* 2^16: an int32 is two half words.
HalfWord == 65536

WideInt(n) ==
    [neg |-> n < 0,
     hi |-> (IF n < 0 THEN 0 - n ELSE n) \div HalfWord,
     lo |-> (IF n < 0 THEN 0 - n ELSE n) % HalfWord]

WideIsZero(w) == w.hi = 0 /\ w.lo = 0

\* int32(val): the low 32 bits of val, read as a signed number.
ToInt32(w) ==
    LET h == w.hi % HalfWord
        l == w.lo
    IN IF ~w.neg
       THEN IF h >= HalfWord \div 2 THEN (h - HalfWord) * HalfWord + l
            ELSE h * HalfWord + l
       ELSE IF h < HalfWord \div 2 \/ (h = HalfWord \div 2 /\ l = 0)
            THEN (0 - h) * HalfWord - l
            ELSE (HalfWord - 1 - h) * HalfWord + (HalfWord - l)

DigitChars == <<"0", "1", "2", "3", "4", "5", "6", "7", "8", "9">>

IsDigit(ch) == \E i \in DOMAIN DigitChars : DigitChars[i] = ch

DigitValue(ch) == (CHOOSE i \in DOMAIN DigitChars : DigitChars[i] = ch) - 1

\* n = n*10 + int(ch) over the digits; <<>> when a character is no digit.
RECURSIVE atoiDigits(_, _)
atoiDigits(acc, s) ==
    IF s = <<>> THEN <<acc>>
    ELSE IF ~IsDigit(Head(s)) THEN <<>>
    ELSE LET t == acc.lo * 10 + DigitValue(Head(s))
         IN atoiDigits([hi |-> acc.hi * 10 + t \div HalfWord, lo |-> t % HalfWord], Tail(s))

\* strconv.Atoi for strings of fewer than 14 characters: the value and
\* whether the syntax is wrong (the value is then 0).
Atoi(s) ==
    IF s = <<>> THEN [val |-> WideInt(0), err |-> TRUE]
    ELSE LET signed == Head(s) \in {"-", "+"}
             digits == IF signed THEN Tail(s) ELSE s
             n == atoiDigits([hi |-> 0, lo |-> 0], digits)
         IN IF digits = <<>> \/ n = <<>> THEN [val |-> WideInt(0), err |-> TRUE]
            ELSE [val |-> [neg |-> Head(s) = "-" /\ ~WideIsZero(n[1]),
                           hi |-> n[1].hi, lo |-> n[1].lo],
                  err |-> FALSE]

\* intstr.IntOrString
FromInt(n) == [Type |-> "Int", IntVal |-> n, StrVal |-> <<>>]
FromString(s) == [Type |-> "String", IntVal |-> 0, StrVal |-> s]

\* IntOrString.IntValue: Atoi of the string with its error dropped, or the
\* int32 widened.
IntValue(intstr) ==
    IF intstr.Type = "String" THEN Atoi(intstr.StrVal).val ELSE WideInt(intstr.IntVal)

ServicePort(port, targetPort) == [Port |-> port, TargetPort |-> targetPort]

NilError == ""
ErrNilService == "cannot resolve a nil Service"
ErrNoEndpoints == "no endpoints found for Service"
ErrNoTargetPort == "no matching target port for Service"
ErrNoValidEndpoints == "no valid endpoints found for Service"

RECURSIVE getTargetPortLoop(_, _)
getTargetPortLoop(ports, svcPort) ==
    IF ports = <<>> THEN [port |-> 0, err |-> ErrNoTargetPort]
    ELSE IF Head(ports).Port = svcPort
         THEN LET val == IntValue(Head(ports).TargetPort)
              IN IF WideIsZero(val) THEN [port |-> 0, err |-> ErrNoTargetPort]
                 ELSE [port |-> ToInt32(val), err |-> NilError]
         ELSE getTargetPortLoop(Tail(ports), svcPort)

getTargetPort(svc, svcPort) == getTargetPortLoop(svc.Ports, svcPort)

targetPortExists(ports, targetPort) ==
    \E i \in DOMAIN ports : ports[i] # <<>> /\ ports[i][1] = targetPort

ignoreEndpointSlice_portOnly(endpointSlice, targetPort) ==
    ~targetPortExists(endpointSlice.Ports, targetPort)

ignoreEndpointSlice(endpointSlice, targetPort) ==
    endpointSlice.AddressType # "IPv4" \/ ~targetPortExists(endpointSlice.Ports, targetPort)

endpointReady(endpoint) == endpoint.Ready # <<>> /\ endpoint.Ready[1]

\* The inner loop of calculateEndpointSliceCapacity.
RECURSIVE readyAddressCount(_)
readyAddressCount(endpoints) ==
    IF endpoints = <<>> THEN 0
    ELSE (IF endpointReady(Head(endpoints)) THEN Len(Head(endpoints).Addresses) ELSE 0)
             + readyAddressCount(Tail(endpoints))

RECURSIVE calculateEndpointSliceCapacity_endpoints(_, _)
calculateEndpointSliceCapacity_endpoints(endpointSlices, targetPort) ==
    IF endpointSlices = <<>> THEN 0
    ELSE (IF ignoreEndpointSlice(Head(endpointSlices), targetPort) THEN 0
          ELSE Len(SelectSeq(Head(endpointSlices).Endpoints, endpointReady)))
             + calculateEndpointSliceCapacity_endpoints(Tail(endpointSlices), targetPort)

RECURSIVE calculateEndpointSliceCapacity(_, _)
calculateEndpointSliceCapacity(endpointSlices, targetPort) ==
    IF endpointSlices = <<>> THEN 0
    ELSE (IF ignoreEndpointSlice(Head(endpointSlices), targetPort) THEN 0
          ELSE readyAddressCount(Head(endpointSlices).Endpoints))
             + calculateEndpointSliceCapacity(Tail(endpointSlices), targetPort)

appendAddresses_first(addresses, targetPort) ==
    IF addresses = <<>> THEN <<>>
    ELSE <<[Address |-> Head(addresses), Port |-> targetPort]>>

\* Endpoint{Address: address, Port: targetPort} for each address.
RECURSIVE appendAddresses(_, _)
appendAddresses(addresses, targetPort) ==
    IF addresses = <<>> THEN <<>>
    ELSE <<[Address |-> Head(addresses), Port |-> targetPort]>>
             \o appendAddresses(Tail(addresses), targetPort)

\* The loop over eps.Endpoints.
RECURSIVE appendReadyEndpoints(_, _)
appendReadyEndpoints(endpoints, targetPort) ==
    IF endpoints = <<>> THEN <<>>
    ELSE (IF endpointReady(Head(endpoints))
          THEN appendAddresses(Head(endpoints).Addresses, targetPort)
          ELSE <<>>)
             \o appendReadyEndpoints(Tail(endpoints), targetPort)

\* The loop over endpointSliceList.Items.
RECURSIVE appendSlices(_, _)
appendSlices(items, targetPort) ==
    IF items = <<>> THEN <<>>
    ELSE (IF ignoreEndpointSlice(Head(items), targetPort) THEN <<>>
          ELSE appendReadyEndpoints(Head(items).Endpoints, targetPort))
             \o appendSlices(Tail(items), targetPort)

Failed(err) == [endpoints |-> <<>>, err |-> err]

resolveEndpoints(svc, svcPort, endpointSliceList) ==
    LET tp == getTargetPort(svc, svcPort)
    IN IF tp.err # NilError THEN Failed(tp.err)
       ELSE IF calculateEndpointSliceCapacity(endpointSliceList.Items, tp.port) = 0
            THEN Failed(ErrNoValidEndpoints)
            ELSE [endpoints |-> <<appendSlices(endpointSliceList.Items, tp.port)>>,
                  err |-> NilError]

\* Resolve, given what e.client.List returns (listed.err, listed.Items).
Resolve(svc, svcPort, listed) ==
    IF svc = <<>> THEN Failed(ErrNilService)
    ELSE IF listed.err \/ Len(listed.Items) = 0 THEN Failed(ErrNoEndpoints)
    ELSE resolveEndpoints(svc[1], svcPort, listed)

\* Services handed to the resolver: nil, and one Service per list of ports.
PortsCatalog ==
    { <<>>,
      << ServicePort(443, FromInt(8443)), ServicePort(80, FromInt(8080)) >>,
      << ServicePort(443, FromInt(8443)),
         ServicePort(80, FromString(<<"8", "0", "8", "0">>)) >>,
      << ServicePort(80, FromInt(0)) >>,
      << ServicePort(80, FromInt(0)), ServicePort(80, FromInt(8080)) >>,
      << ServicePort(80, FromInt(8080)), ServicePort(80, FromInt(9090)) >>,
      << ServicePort(80, FromString(<<"h", "t", "t", "p">>)) >>,
      << ServicePort(80, FromString(<<>>)) >>,
      << ServicePort(80, FromString(<<"0">>)) >>,
      << ServicePort(80, FromString(<<"+", "8", "0", "8", "0">>)) >>,
      << ServicePort(80, FromString(<<"-">>)) >>,
      << ServicePort(80, FromString(<<"4", "2", "9", "4", "9", "6", "7", "2", "9", "6">>)) >>,
      << ServicePort(80, FromString(<<"4", "2", "9", "4", "9", "7", "5", "3", "7", "6">>)) >> }

ResolverServices ==
    {<<>>} \cup {<<[Namespace |-> NS, Name |-> "svc1", Ports |-> p]>> : p \in PortsCatalog}

ResolverSvcPorts == {80, 90}

Endpoint(addresses, ready) == [Addresses |-> addresses, Ready |-> ready]

EndpointSlice(addressType, ports, endpoints) ==
    [AddressType |-> addressType, Ports |-> ports, Endpoints |-> endpoints]

SliceCatalog ==
    { EndpointSlice("IPv4", << <<8080>> >>,
                    << Endpoint(<<"10.0.0.1", "10.0.0.2">>, <<TRUE>>) >>),
      EndpointSlice("IPv4", << <<>>, <<8080>> >>,
                    << Endpoint(<<"10.0.0.1">>, <<TRUE>>),
                       Endpoint(<<"10.0.0.3">>, <<FALSE>>),
                       Endpoint(<<"10.0.0.4">>, <<>>) >>),
      EndpointSlice("IPv6", << <<8080>> >>, << Endpoint(<<"fe80::1">>, <<TRUE>>) >>),
      EndpointSlice("IPv4", << <<>> >>, << Endpoint(<<"10.0.0.5">>, <<TRUE>>) >>),
      EndpointSlice("IPv4", << <<8080>> >>, << Endpoint(<<>>, <<TRUE>>) >>),
      EndpointSlice("IPv4", << <<9090>> >>, << Endpoint(<<"10.0.0.6">>, <<TRUE>>) >>),
      EndpointSlice("IPv4", << <<0>> >>, << Endpoint(<<"10.0.0.7">>, <<TRUE>>) >>),
      EndpointSlice("IPv4", <<>>, << Endpoint(<<"10.0.0.8">>, <<TRUE>>) >>) }

\* What e.client.List returns: an error, or the EndpointSlices of the Service.
ListResults ==
    {[err |-> TRUE, Items |-> <<>>]}
        \cup {[err |-> FALSE, Items |-> items] :
                  items \in UNION {[1..n -> SliceCatalog] : n \in 0..MaxItems}}

ResolverInputs == [svc : ResolverServices, svcPort : ResolverSvcPorts, listed : ListResults]

NotCalled == <<>>

\* A caller about to resolve one Service port, for every input.
InitResolver ==
    /\ InitEngine
    /\ resolverArgs \in ResolverInputs
    /\ resolveResult = NotCalled
    /\ targetPortResult = NotCalled
    /\ builderArgs = <<>>
    /\ builderResult = <<>>

\* ServiceResolverImpl.Resolve on the arguments.
ResolveCall ==
    /\ resolveResult = NotCalled
    /\ resolveResult' =
           <<Resolve(resolverArgs.svc, resolverArgs.svcPort, resolverArgs.listed)>>
    /\ UNCHANGED <<resolverArgs, targetPortResult>>
    /\ UNCHANGED <<cpVars, trackerVars, builderVars>>

\* getTargetPort on the arguments (its callers pass a Service that is not nil).
GetTargetPortCall ==
    /\ targetPortResult = NotCalled
    /\ resolverArgs.svc # <<>>
    /\ targetPortResult' = <<getTargetPort(resolverArgs.svc[1], resolverArgs.svcPort)>>
    /\ UNCHANGED <<resolverArgs, resolveResult>>
    /\ UNCHANGED <<cpVars, trackerVars, builderVars>>

NextResolver == ResolveCall \/ GetTargetPortCall

SpecResolver == InitResolver /\ [][NextResolver]_vars

---------------------------------------------------------------------------
(* The configuration builder called on graphs of its own (as             *)
(* TestBuildConfiguration, TestBuildUpstreams and TestGenerateUpstreamName *)
(* call it)                                                                *)

\* createRoute of TestBuildConfiguration: a rule with one match per path.
createRoute(name, hostname, listenerName, paths) ==
    [Kind |-> "HTTPRoute", Namespace |-> NS, Name |-> name, Generation |-> 1,
     ParentRefs |-> << ParentRef(listenerName) >>,
     Hostnames |-> <<hostname>>,
     Rules |-> [i \in DOMAIN paths |->
                    [Matches |-> << PathMatch(paths[i]) >>, BackendRefs |-> <<>>]]]

fooBackendSvc == [name |-> "foo", namespace |-> "test", port |-> 80]

barBackendSvc == [name |-> "bar", namespace |-> "test", port |-> 8080]

fooEndpoints == << [Address |-> "10.0.0.0", Port |-> 8080], [Address |-> "10.0.0.1", Port |-> 8080] >>

\* The route node of hr bound to the listener it names.
routeOf(hr, services) ==
    [Source |-> hr,
     ValidSectionNameRefs |-> {hr.ParentRefs[1].SectionName[1]},
     InvalidSectionNameRefs |-> {},
     BackendServices |-> services]

routeHR1 ==
    routeOf(createRoute("hr-1", "foo.example.com", "listener-80-1", <<"/">>),
            0 :> fooBackendSvc)
routeHR2 ==
    routeOf(createRoute("hr-2", "bar.example.com", "listener-80-1", <<"/">>),
            0 :> fooBackendSvc)
routeHR3 ==
    routeOf(createRoute("hr-3", "foo.example.com", "listener-80-1", <<"/", "/third">>),
            (0 :> fooBackendSvc) @@ (1 :> fooBackendSvc))
routeHR4 ==
    routeOf(createRoute("hr-4", "foo.example.com", "listener-80-1", <<"/fourth", "/">>),
            (0 :> fooBackendSvc) @@ (1 :> barBackendSvc))
\* A route of the second HTTP listener, for the hostname of hr-3 and hr-4.
routeHR6 ==
    routeOf(createRoute("hr-6", "foo.example.com", "listener-80-2", <<"/", "/sixth">>),
            (0 :> barBackendSvc) @@ (1 :> fooBackendSvc))
\* A route of another namespace whose name is after hr-3 and hr-4.
routeHR9 ==
    routeOf([createRoute("hr-9", "foo.example.com", "listener-80-1", <<"/">>)
                 EXCEPT !.Namespace = "app"],
            0 :> barBackendSvc)
\* A route without hostnames, with a nil path, a nil value, an empty value
\* and a rule without backend.
routeNoHostnames(name, listenerName) ==
    routeOf([createRoute(name, "", listenerName, <<"/">>)
                 EXCEPT !.Hostnames = <<>>,
                        !.Rules = << [Matches |-> << [Path |-> <<>>] >>, BackendRefs |-> <<>>],
                                     [Matches |-> << [Path |-> << [Value |-> <<>>] >>] >>,
                                      BackendRefs |-> <<>>],
                                     [Matches |-> << [Path |-> << [Value |-> <<"">>] >>] >>,
                                      BackendRefs |-> <<>>],
                                     [Matches |-> << PathMatch("/abc") >>,
                                      BackendRefs |-> <<>>] >>],
            (0 :> fooBackendSvc) @@ (1 :> barBackendSvc) @@ (2 :> fooBackendSvc))
httpsRouteHR1 ==
    routeOf(createRoute("https-hr-1", "foo.example.com", "listener-443-1", <<"/">>),
            0 :> fooBackendSvc)
httpsRouteHR2 ==
    routeOf(createRoute("https-hr-2", "bar.example.com", "listener-443-1", <<"/">>),
            0 :> fooBackendSvc)
httpsRouteHR3 ==
    routeOf(createRoute("https-hr-3", "foo.example.com", "listener-443-1", <<"/", "/third">>),
            (0 :> fooBackendSvc) @@ (1 :> fooBackendSvc))
httpsRouteHR4 ==
    routeOf(createRoute("https-hr-4", "foo.example.com", "listener-443-1", <<"/fourth", "/">>),
            (0 :> fooBackendSvc) @@ (1 :> fooBackendSvc))
httpsRouteHR5 ==
    routeOf(createRoute("https-hr-5", "example.com", "listener-443-with-hostname", <<"/">>),
            0 :> InvalidBackendService)

\* A listener node holding the route nodes rs.
listenerOf(source, valid, rs, path) ==
    [Source |-> source,
     Valid |-> valid,
     Routes |-> [k \in {getNamespacedName(r.Source) : r \in rs} |->
                     CHOOSE r \in rs : getNamespacedName(r.Source) = k],
     AcceptedHostnames |-> UNION {acceptedHostnames(source, r.Source) : r \in rs},
     SecretPath |-> path]

\* One listener under its name, or no listener.
Slot(source, valid, routeSets, path) ==
    {EmptyMap} \cup {source.Name :> listenerOf(source, valid, rs, path) : rs \in routeSets}

secretPathOfTests == secretPath([Name |-> "secret"])

\* The listener maps of the graphs: every choice of at most one node per
\* listener.
ListenerMaps ==
    {a @@ c @@ d @@ e @@ f :
        a \in Slot(listener80, TRUE,
                   {{}, {routeHR1, routeHR2}, {routeHR3, routeHR4},
                    {routeHR3, routeHR4, routeHR9,
                     routeNoHostnames("hr-0", "listener-80-1")}}, "")
                  \cup Slot(listener80, FALSE, {{routeHR1, routeHR2}}, ""),
        c \in Slot(listener80WithHostname, TRUE, {{routeHR6}}, ""),
        d \in Slot(listener443, TRUE,
                   {{}, {httpsRouteHR1, httpsRouteHR2}, {httpsRouteHR3, httpsRouteHR4},
                    {routeNoHostnames("https-hr-0", "listener-443-1")}}, secretPathOfTests),
        e \in Slot(listener443WithHostname, TRUE, {{}, {httpsRouteHR5}}, secretPathOfTests),
        f \in Slot(invalidListener, FALSE, {{httpsRouteHR1, httpsRouteHR2}}, "")}

\* What the resolver found for the Services of the routes.
graphEndpoints(svc) == IF svc = fooBackendSvc THEN << fooEndpoints >> ELSE <<>>

\* The graph of a class, a gateway (each nil or not) and its listeners.
graphOf(class, gw) ==
    LET rs == IF gw = <<>> THEN EmptyMap
              ELSE [k \in UNION {DOMAIN gw[1].Listeners[n].Routes :
                                     n \in DOMAIN gw[1].Listeners} |->
                        LET n == CHOOSE m \in DOMAIN gw[1].Listeners :
                                     k \in DOMAIN gw[1].Listeners[m].Routes
                        IN gw[1].Listeners[n].Routes[k]]
        used == UNION {{rs[k].BackendServices[i] : i \in DOMAIN rs[k].BackendServices} :
                           k \in DOMAIN rs} \ {InvalidBackendService}
    IN [GatewayClass |-> class,
        Gateway |-> gw,
        Routes |-> rs,
        Backends |-> [svc \in used |-> [Endpoints |-> graphEndpoints(svc)]]]

GraphInputs ==
    {graphOf(class, gw) :
        class \in {<<>>,
                   << [Source |-> [Kind |-> "GatewayClass"], Valid |-> TRUE] >>,
                   << [Source |-> [Kind |-> "GatewayClass"], Valid |-> FALSE] >>},
        gw \in {<<>>} \cup
               {<< [Source |-> [Kind |-> "Gateway"], Listeners |-> ls] >> : ls \in ListenerMaps}}

\* The backends of TestBuildUpstreams and the maps of some of them.
backendsOfTests ==
    (fooBackendSvc :> [Endpoints |-> << fooEndpoints >>])
    @@ (barBackendSvc :> [Endpoints |-> << << [Address |-> "11.0.0.0", Port |-> 80] >> >>])
    @@ ([name |-> "nil-endpoints", namespace |-> "test", port |-> 443] :> [Endpoints |-> <<>>])
    @@ ([name |-> "empty-endpoints", namespace |-> "test", port |-> 443] :>
            [Endpoints |-> << <<>> >>])

BackendsInputs ==
    {[svc \in keys |-> backendsOfTests[svc]] : keys \in SUBSET DOMAIN backendsOfTests}

BackendServiceInputs ==
    [name : {"", "foo", "backend_ref"}, namespace : {"", "test", "invalid"},
     port : {0, 80, 9090}]

BuilderInputs ==
    [call : {"buildConfiguration"}, graph : GraphInputs]
        \cup [call : {"buildUpstreams"}, backends : BackendsInputs]
        \cup [call : {"generateUpstreamName"}, service : BackendServiceInputs]

\* A caller about to call one function of the builder, for every input.
InitBuilder ==
    /\ InitEngine
    /\ resolverArgs = <<>>
    /\ resolveResult = <<>>
    /\ targetPortResult = <<>>
    /\ builderArgs \in {<<x>> : x \in BuilderInputs}
    /\ builderResult = <<>>

\* buildConfiguration on the graph, the runtime choosing the order in which
\* buildUpstreams visits the backends.
BuildConfigurationCall ==
    /\ builderResult = <<>>
    /\ builderArgs[1].call = "buildConfiguration"
    /\ \E order \in IterationOrders(builderArgs[1].graph.Backends) :
           builderResult' =
               << [order |-> order,
                   conf |-> buildConfiguration(builderArgs[1].graph, order)] >>
    /\ UNCHANGED builderArgs
    /\ UNCHANGED <<cpVars, trackerVars, resolverVars>>

\* buildUpstreams on the backends, the runtime choosing the order of the loop.
BuildUpstreamsCall ==
    /\ builderResult = <<>>
    /\ builderArgs[1].call = "buildUpstreams"
    /\ \E order \in IterationOrders(builderArgs[1].backends) :
           builderResult' =
               << [order |-> order,
                   upstreams |-> buildUpstreams(builderArgs[1].backends, order)] >>
    /\ UNCHANGED builderArgs
    /\ UNCHANGED <<cpVars, trackerVars, resolverVars>>

GenerateUpstreamNameCall ==
    /\ builderResult = <<>>
    /\ builderArgs[1].call = "generateUpstreamName"
    /\ builderResult' = << [name |-> generateUpstreamName(builderArgs[1].service)] >>
    /\ UNCHANGED builderArgs
    /\ UNCHANGED <<cpVars, trackerVars, resolverVars>>

NextBuilder == BuildConfigurationCall \/ BuildUpstreamsCall \/ GenerateUpstreamNameCall

SpecBuilder == InitBuilder /\ [][NextBuilder]_vars

---------------------------------------------------------------------------
(* Properties of the change processor and of the tracker *)

Captures == {"upsert", "delete"}

\* A Process call that is about to return (its results are in ret).
ProcessReturning(t) == pc[t] = "unlock" /\ op[t] = "process"

\* A capture call that is about to return.
CaptureReturning(t) == pc[t] = "unlock" /\ op[t] \in Captures

\* A goroutine inside the body of one of the three methods.
InBody(t) == pc[t] \in {"build", "unlock"}

\* C1: once a capture that recorded a relevant change has run, the first
\* Process that takes the lock afterwards returns changed = TRUE, in every
\* interleaving (including a capture that was waiting while a Process ran).
NoRelevantChangeLost ==
    \A t \in Threads :
        (ProcessReturning(t) /\ obs[t].pending) => ret[t].changed

\* A Process reports a pending relevant change while a capture that arrived
\* during it waits for the lock.
NoRelevantChangeLostWitness ==
    \E t \in Threads, u \in Threads :
        /\ ProcessReturning(t) /\ obs[t].pending /\ ret[t].changed
        /\ pc[u] = "lock" /\ op[u] \in Captures

\* C2: at most one goroutine is inside the body of CaptureUpsertChange,
\* CaptureDeleteChange or Process, it holds the lock, and the store is not
\* modified while a Process is between its check and its return.
MutualExclusion ==
    /\ Cardinality({t \in Threads : InBody(t)}) <= 1
    /\ (\E t \in Threads : InBody(t)) => locked
    /\ \A t \in Threads : (op[t] = "process" /\ InBody(t)) => obs[t].snap = <<store>>

\* A Process is building while a capture is blocked on the lock.
MutualExclusionWitness ==
    \E t \in Threads, u \in Threads :
        pc[t] = "build" /\ pc[u] = "lock" /\ op[u] = "upsert" /\ locked

\* C3: storeChanged goes from TRUE to FALSE only in the step of a Process
\* call that found it TRUE; no capture ever resets it.
StoreChangedSticky ==
    [][(storeChanged /\ ~storeChanged') =>
           \E t \in Threads : op[t] = "process" /\ pc[t] = "lock" /\ pc'[t] = "build"]_vars

\* An irrelevant capture (a Service no route references) returns with the
\* flag still set.
StoreChangedStickyWitness ==
    \E t \in Threads :
        /\ CaptureReturning(t) /\ last[t].kind = "Service" /\ ~last[t].hit
        /\ storeChanged

\* C4: a Process that runs after another Process with no capture in between
\* returns changed = FALSE.
SecondProcessUnchanged ==
    \A t \in Threads :
        (ProcessReturning(t) /\ obs[t].quiet) => ~ret[t].changed

\* A second Process in a row returns unchanged although resources are stored.
SecondProcessUnchangedWitness ==
    \E t \in Threads :
        /\ ProcessReturning(t) /\ obs[t].quiet /\ ~ret[t].changed
        /\ DOMAIN store.httpRoutes # {}

\* C5: a Process that returns changed = FALSE returns the empty Configuration
\* and the empty Statuses and has built no graph.
UnchangedReturnsEmpty ==
    \A t \in Threads :
        (ProcessReturning(t) /\ ~ret[t].changed) =>
            /\ ret[t].conf = EmptyConfiguration
            /\ ret[t].statuses = EmptyStatuses
            /\ graph[t] = <<>>

\* Process with nothing new over a store whose configuration is not empty.
UnchangedReturnsEmptyWitness ==
    \E t \in Threads :
        /\ ProcessReturning(t) /\ ~ret[t].changed
        /\ \A order \in IterationOrders(buildGraph(store).Backends) :
               buildConfiguration(buildGraph(store), order) # EmptyConfiguration

\* C6: a Process that returns changed = TRUE returns the Configuration and
\* the Statuses of one graph, built from the store as it was when the
\* Process took the lock, and no capture has touched the store since.
OneGraphOneSnapshot ==
    \A t \in Threads :
        (ProcessReturning(t) /\ ret[t].changed) =>
            /\ obs[t].snap = <<store>>
            /\ graph[t] = <<buildGraph(obs[t].snap[1])>>
            /\ \E order \in IterationOrders(graph[t][1].Backends) :
                   ret[t].conf = buildConfiguration(graph[t][1], order)
            /\ ret[t].statuses = buildStatuses(graph[t][1])

\* A non-empty Configuration is returned while a capture waits for the lock.
OneGraphOneSnapshotWitness ==
    \E t \in Threads, u \in Threads :
        /\ ProcessReturning(t) /\ ret[t].changed
        /\ ret[t].conf # EmptyConfiguration
        /\ pc[u] = "lock" /\ op[u] \in Captures

AllServices ==
    UNION {relationshipGetBackendServiceNamesFromRoute(r) : r \in TrackerRoutes}
        \cup {Nsname(NS, n) : n \in ServiceNames}

\* C7: serviceRefCount[s] is the number of routes r with s in
\* routesToServices[r]; a Service no route references has no entry and no
\* entry is zero or negative.
RefCountInvariant ==
    /\ \A s \in AllServices \cup DOMAIN serviceRefCount :
           MapGetInt(serviceRefCount, s) =
               Cardinality({r \in DOMAIN routesToServices : s \in routesToServices[r]})
    /\ \A s \in DOMAIN serviceRefCount : serviceRefCount[s] > 0

\* One Service is referenced by two routes, another by none, and a route
\* references two Services.
RefCountWitness ==
    /\ \E s \in DOMAIN serviceRefCount : serviceRefCount[s] = 2
    /\ \E s \in AllServices : s \notin DOMAIN serviceRefCount
    /\ \E r \in DOMAIN routesToServices : Cardinality(routesToServices[r]) = 2

\* C8: store.services has an entry for Service s iff a stored HTTPRoute
\* lists s as a backend Service.
StoreIndexInvariant ==
    \A s \in {Nsname(NS, n) : n \in ServiceNames} :
        s \in DOMAIN store.services <=>
            \E k \in DOMAIN store.httpRoutes :
                s \in SeqToSet(getBackendServiceNamesFromRoute(store.httpRoutes[k]))

\* C9: after CaptureDeleteChange(HTTPRoute, k), k is in no entry of the
\* index, k is not in httpRoutes and no index entry is empty.
DeleteRoutePurgesIndex ==
    [][\A t \in Threads, n \in RouteNames :
           CaptureDeleteChange(t, "HTTPRoute", Nsname(NS, n)) =>
               /\ Nsname(NS, n) \notin DOMAIN store'.httpRoutes
               /\ \A s \in DOMAIN store'.services :
                      /\ Nsname(NS, n) \notin store'.services[s]
                      /\ store'.services[s] # {}]_vars

\* C10: an upsert of an HTTPRoute whose Generation equals the stored one
\* leaves storeChanged as it was.
SameGenerationNoChange ==
    [][\A t \in Threads, hr \in HTTPRouteInputs :
           (CaptureUpsertChange(t, hr) /\ upsertHit(store, hr)) =>
               storeChanged' = storeChanged]_vars

\* An HTTPRoute was upserted again with its stored Generation and the flag
\* is still clear.
SameGenerationNoChangeWitness ==
    \E t \in Threads :
        /\ CaptureReturning(t) /\ last[t].op = "upsert"
        /\ last[t].kind = "HTTPRoute" /\ last[t].hit
        /\ ~storeChanged

\* The Services (in the slice's namespace) that the slice's owner references
\* of kind Service name.
ServiceOwners(es) ==
    {Nsname(es.Namespace, es.OwnerReferences[i].Name) :
         i \in {j \in DOMAIN es.OwnerReferences : es.OwnerReferences[j].Kind = "Service"}}

\* C11: a GatewayClass or Gateway upsert that does not panic stores the new
\* object and is unchanged (leaves storeChanged as it was) iff an instance
\* with the same Generation is stored under its key; otherwise it sets
\* storeChanged.  A delete leaves the key absent, so the upsert that follows
\* it is a change.
GenerationRule ==
    [][/\ \A t \in Threads, gc \in GatewayClassInputs :
              (CaptureUpsertChange(t, gc) /\ gc.Name = GatewayClassName) =>
                  /\ store'.gc = <<gc>>
                  /\ storeChanged' =
                         (storeChanged \/ ~(store.gc # <<>>
                                              /\ store.gc[1].Generation = gc.Generation))
       /\ \A t \in Threads, gw \in GatewayInputs :
              CaptureUpsertChange(t, gw) =>
                  /\ getNamespacedName(gw) \in DOMAIN store'.gateways
                  /\ store'.gateways[getNamespacedName(gw)] = gw
                  /\ storeChanged' =
                         (storeChanged
                              \/ ~(/\ getNamespacedName(gw) \in DOMAIN store.gateways
                                   /\ store.gateways[getNamespacedName(gw)].Generation
                                          = gw.Generation))
       /\ \A t \in Threads :
              (last'[t].op = "upsert" /\ last'[t].afterDelete /\ last[t].op = "none")
                  => storeChanged'
       /\ \A t \in Threads, d \in DeleteInputs :
              (CaptureDeleteChange(t, d.Kind, Nsname(d.Namespace, d.Name))
                   /\ ~last'[t].panic) =>
                  /\ d.Kind = "GatewayClass" => store'.gc = <<>>
                  /\ d.Kind = "Gateway" =>
                         Nsname(d.Namespace, d.Name) \notin DOMAIN store'.gateways]_vars

\* A Gateway deleted and upserted again with its old Generation set the flag
\* that was clear.
GenerationRuleWitness ==
    \E t \in Threads :
        /\ CaptureReturning(t) /\ last[t].op = "upsert" /\ last[t].kind = "Gateway"
        /\ last[t].afterDelete /\ ~last[t].hit /\ ~last[t].was /\ storeChanged

\* C12: a Service upsert or delete sets storeChanged iff the Service's key
\* is in store.services, and changes no mapping of the store.
ServiceEventFrame ==
    [][\A t \in Threads, svc \in ServiceInputs :
           (\/ CaptureUpsertChange(t, svc)
            \/ CaptureDeleteChange(t, "Service", getNamespacedName(svc))) =>
               /\ store' = store
               /\ storeChanged' =
                      (storeChanged \/ getNamespacedName(svc) \in DOMAIN store.services)]_vars

\* A delete of an indexed Service set the flag that was clear, over a store
\* that holds a route.
ServiceEventFrameWitness ==
    \E t \in Threads :
        /\ CaptureReturning(t) /\ last[t].op = "delete" /\ last[t].kind = "Service"
        /\ last[t].hit /\ ~last[t].was /\ storeChanged
        /\ DOMAIN store.httpRoutes # {}

\* C13: an EndpointSlice upsert stores the slice and sets storeChanged when
\* one of its Service owners is in store.services, and otherwise leaves the
\* store and storeChanged as they were.
EndpointSliceUpsertRule ==
    [][\A t \in Threads, es \in EndpointSliceInputs :
           CaptureUpsertChange(t, es) =>
               IF ServiceOwners(es) \cap DOMAIN store.services # {}
               THEN /\ store' = [store EXCEPT !.endpointSlices =
                                     MapPut(store.endpointSlices, getNamespacedName(es), es)]
                    /\ storeChanged'
               ELSE /\ store' = store
                    /\ storeChanged' = storeChanged]_vars

\* A slice whose second owner reference is the indexed Service was stored.
EndpointSliceUpsertRuleWitness ==
    \E t \in Threads, k \in DOMAIN store.endpointSlices :
        /\ CaptureReturning(t) /\ last[t].op = "upsert" /\ last[t].kind = "EndpointSlice"
        /\ last[t].hit /\ ~last[t].was /\ storeChanged
        /\ store.endpointSlices[k].OwnerReferences[1].Kind # "Service"

SupportedKinds ==
    {"GatewayClass", "Gateway", "HTTPRoute", "Service", "EndpointSlice", "Secret"}

\* C15: no capture of an object of one of the six supported kinds panics
\* (a GatewayClass with another name than the managed one aside).
SupportedKindsAccepted ==
    [][\A t \in Threads :
           (last[t].op = "none" /\ last'[t].op \in Captures
                /\ last'[t].kind \in SupportedKinds \ {"GatewayClass"})
               => ~last'[t].panic]_vars

\* C16: a capture that panics leaves the store and storeChanged as they were
\* before the call, and the lock is free once the panic has left the call.
PanicLeavesNoTrace ==
    [][/\ \A t \in Threads :
              (last[t].op = "none" /\ last'[t].op \in Captures /\ last'[t].panic) =>
                  /\ store' = store
                  /\ storeChanged' = storeChanged
       /\ \A t \in Threads : pc'[t] = "panicked" => ~locked']_vars

\* A GatewayClass capture with the wrong name panicked over a store that
\* holds the managed class, with the flag set; the lock is free.
PanicLeavesNoTraceWitness ==
    \E t \in Threads :
        /\ pc[t] = "panicked"
        /\ ~locked
        /\ storeChanged
        /\ store.gc # <<>> /\ store.gc[1].Name = GatewayClassName
        /\ DOMAIN store.httpRoutes # {}

\* The (slice, endpoint, address) positions of the listed EndpointSlices
\* that are IPv4, list port tp, and belong to an endpoint with Ready present
\* and true.
ReadyAddresses(items, tp) ==
    {<<i, j, a>> \in UNION {UNION {{<<i, j, a>> : a \in DOMAIN items[i].Endpoints[j].Addresses} :
                                       j \in DOMAIN items[i].Endpoints} : i \in DOMAIN items} :
         /\ items[i].AddressType = "IPv4"
         /\ \E p \in DOMAIN items[i].Ports : items[i].Ports[p] = <<tp>>
         /\ items[i].Endpoints[j].Ready = <<TRUE>>}

\* C17: every endpoint Resolve returns has the address of a ready endpoint
\* (Ready present and true) of an IPv4 EndpointSlice whose ports contain the
\* target port (a nil port matches nothing), and carries the target port
\* that getTargetPort computed for the Service.
ResolvedFromReadyIPv4 ==
    (resolveResult # NotCalled /\ resolveResult[1].err = NilError) =>
        LET items == resolverArgs.listed.Items
            tp == getTargetPort(resolverArgs.svc[1], resolverArgs.svcPort).port
            endpoints == resolveResult[1].endpoints[1]
        IN \A n \in DOMAIN endpoints :
               /\ endpoints[n].Port = tp
               /\ \E x \in ReadyAddresses(items, tp) :
                      items[x[1]].Endpoints[x[2]].Addresses[x[3]] = endpoints[n].Address

\* Resolve returned the one ready address of a slice that also holds an
\* endpoint that is not ready and one without a Ready condition, next to an
\* IPv6 slice with a ready endpoint.
ResolvedFromReadyIPv4Witness ==
    /\ resolveResult # NotCalled
    /\ resolveResult[1].endpoints = << << [Address |-> "10.0.0.1", Port |-> 8080] >> >>
    /\ \E i \in DOMAIN resolverArgs.listed.Items :
           /\ resolverArgs.listed.Items[i].AddressType = "IPv6"
           /\ resolverArgs.listed.Items[i].Endpoints[1].Ready = <<TRUE>>
    /\ \E i \in DOMAIN resolverArgs.listed.Items :
           \E j \in DOMAIN resolverArgs.listed.Items[i].Endpoints :
               resolverArgs.listed.Items[i].Endpoints[j].Ready = <<>>

\* C18: Resolve returns an error and a nil list, or no error and a list
\* that is not empty; a nil Service, a failed or empty List, no port entry
\* equal to svcPort, and no ready address in a compatible slice each give
\* an error.
ErrorOrEndpoints ==
    resolveResult # NotCalled =>
        LET r == resolveResult[1]
            svc == resolverArgs.svc
            items == resolverArgs.listed.Items
        IN /\ \/ r.err # NilError /\ r.endpoints = <<>>
              \/ r.err = NilError /\ r.endpoints # <<>> /\ Len(r.endpoints[1]) > 0
           /\ (\/ svc = <<>>
               \/ resolverArgs.listed.err
               \/ items = <<>>
               \/ \A i \in DOMAIN svc[1].Ports : svc[1].Ports[i].Port # resolverArgs.svcPort
               \/ ReadyAddresses(items,
                                 getTargetPort(svc[1], resolverArgs.svcPort).port) = {})
                  => (r.err # NilError /\ r.endpoints = <<>>)

\* The only compatible slice has a ready endpoint that lists no address:
\* Resolve failed with "no valid endpoints".
ErrorOrEndpointsWitness ==
    /\ resolveResult # NotCalled
    /\ resolveResult[1].err = ErrNoValidEndpoints
    /\ \E i \in DOMAIN resolverArgs.listed.Items :
           LET es == resolverArgs.listed.Items[i]
           IN /\ es.AddressType = "IPv4"
              /\ es.Ports = << <<8080>> >>
              /\ es.Endpoints = << Endpoint(<<>>, <<TRUE>>) >>

\* C19: for a Service (not nil) for which getTargetPort fails, Resolve
\* fails with the "no matching target port" error, whatever List returns.
TargetPortCheckedFirst ==
    (/\ resolveResult # NotCalled
     /\ resolverArgs.svc # <<>>
     /\ getTargetPort(resolverArgs.svc[1], resolverArgs.svcPort).err # NilError)
        => resolveResult[1].err = ErrNoTargetPort

\* C20: getTargetPort returns the target port of the first port entry whose
\* port equals svcPort, without an error, when that target port (the
\* integer, or the integer the string converts to) is not zero; in every
\* other case it returns 0 and an error.
TargetPortContract ==
    targetPortResult # NotCalled =>
        LET ports == resolverArgs.svc[1].Ports
            matches == {i \in DOMAIN ports : ports[i].Port = resolverArgs.svcPort}
            r == targetPortResult[1]
        IN IF /\ matches # {}
              /\ ~WideIsZero(IntValue(
                     ports[CHOOSE i \in matches : \A j \in matches : i <= j].TargetPort))
           THEN /\ r.err = NilError
                /\ WideInt(r.port) =
                       IntValue(ports[CHOOSE i \in matches : \A j \in matches : i <= j]
                                    .TargetPort)
           ELSE r.port = 0 /\ r.err # NilError

\* A Capture of an HTTPRoute has just been undone by the Remove of its key.
RoundTripDone == roundTrip # <<>> /\ roundTrip[1].phase = "removed"

\* The tracker is as it was before the Capture of the round trip.
RoundTripRestored ==
    /\ routesToServices = roundTrip[1].routesToServices
    /\ serviceRefCount = roundTrip[1].serviceRefCount
    /\ endpointSliceOwners = roundTrip[1].endpointSliceOwners

\* C21 (as stated): Capture(x) followed by Remove(x) of an HTTPRoute returns
\* the tracker to the state before the Capture, for any prior tracker state.
RoundTripAnyPrior == RoundTripDone => RoundTripRestored

\* C21: Capture(x) followed by Remove(x) of an HTTPRoute returns the tracker
\* to the state before the Capture, for any prior tracker state in which x
\* was not captured.
RoundTripFreshPrior == (RoundTripDone /\ roundTrip[1].fresh) => RoundTripRestored

\* A round trip of a route that was not captured before and references two
\* Services, one of them referenced by another route.
RoundTripFreshPriorWitness ==
    /\ RoundTripDone
    /\ roundTrip[1].fresh
    /\ Cardinality(relationshipGetBackendServiceNamesFromRoute(roundTrip[1].route)) = 2
    /\ \E s \in relationshipGetBackendServiceNamesFromRoute(roundTrip[1].route) :
           s \in DOMAIN roundTrip[1].serviceRefCount
    /\ roundTrip[1].endpointSliceOwners # EmptyMap

\* The Services a route references: the first backendRef of every rule that
\* has one, when its Kind is absent or "Service", in the namespace of the
\* ref or else of the route.
FirstRefServices(hr) ==
    {Nsname(IF hr.Rules[i].BackendRefs[1].Namespace # <<>>
            THEN hr.Rules[i].BackendRefs[1].Namespace[1]
            ELSE hr.Namespace,
            hr.Rules[i].BackendRefs[1].Name) :
        i \in {j \in DOMAIN hr.Rules :
                   /\ Len(hr.Rules[j].BackendRefs) >= 1
                   /\ hr.Rules[j].BackendRefs[1].Kind \in {<<>>, <<"Service">>}}}

\* The keys Exists is asked about.
ExistsKeys == AllServices \cup {Nsname(k.Namespace, k.Name) : k \in TrackerKeys}

\* C22: Exists(Service, s) is true exactly when a captured route references
\* s; Exists(EndpointSlice, e) is true exactly when an owner of e is recorded
\* and a captured route references that owner; Exists is false for every
\* other kind.
ExistsContract ==
    \A k \in ExistsKeys :
        /\ Exists("Service", k) <=> \E r \in DOMAIN captured : k \in FirstRefServices(captured[r])
        /\ Exists("EndpointSlice", k) <=>
               /\ k \in DOMAIN endpointSliceOwners
               /\ \E r \in DOMAIN captured :
                      endpointSliceOwners[k] \in FirstRefServices(captured[r])
        /\ \A kind \in {"HTTPRoute", "Gateway", "GatewayClass", "Secret", ""} :
               ~Exists(kind, k)

\* One slice has a recorded owner that a route references, another has a
\* recorded owner that no route references, and a captured route exists
\* under the name of which Exists answers false.
ExistsContractWitness ==
    /\ \E e \in DOMAIN endpointSliceOwners : Exists("EndpointSlice", e)
    /\ \E e \in DOMAIN endpointSliceOwners :
           /\ ~Exists("EndpointSlice", e)
           /\ ~Exists("Service", endpointSliceOwners[e])
    /\ \E r \in DOMAIN captured : ~Exists("HTTPRoute", r)

\* C23: the relationship extractor returns exactly the Services named by the
\* first backendRef of each rule that has a backendRef, when the Kind of that
\* ref is absent or "Service", in the namespace of the ref or else of the
\* route; later backendRefs are not consulted and duplicates collapse.
ExtractorFirstRefs ==
    \A r \in DOMAIN captured : routesToServices[r] = FirstRefServices(captured[r])

\* Captured: a route whose first rule names svc2 in its first ref and svc1
\* in its second, with a rule without refs and a rule of another kind; and
\* a route whose three rules name two Services.
ExtractorFirstRefsWitness ==
    /\ \E r \in DOMAIN captured :
           /\ captured[r].Rules = RulesSvc2
           /\ routesToServices[r] = {Nsname(NS, "svc2")}
    /\ \E r \in DOMAIN captured :
           /\ captured[r].Rules = RulesBoth
           /\ routesToServices[r] = {Nsname(NS, "svc1"), Nsname(NS, "svc2")}

---------------------------------------------------------------------------
(* Properties of the configuration builder *)

\* The call of the builder has returned.
Built(call) == builderResult # <<>> /\ builderArgs[1].call = call

\* n >= 0 in decimal.
RECURSIVE Decimal(_)
Decimal(n) ==
    IF n < 10 THEN DigitChars[n + 1]
    ELSE Decimal(n \div 10) \o DigitChars[(n % 10) + 1]

\* C24: the generated upstream name is invalid_backend_ref exactly when the
\* name of the backendService is empty, and otherwise it is
\* <namespace>_<name>_<port>.
UpstreamNameContract ==
    Built("generateUpstreamName") =>
        LET s == builderArgs[1].service
            n == builderResult[1].name
        IN /\ n = "invalid_backend_ref" <=> s.name = ""
           /\ s.name # "" => n = s.namespace \o "_" \o s.name \o "_" \o Decimal(s.port)

\* The sentinel is returned for a backendService without name in a namespace.
UpstreamNameContractWitness ==
    /\ Built("generateUpstreamName")
    /\ builderArgs[1].service = [name |-> "", namespace |-> "test", port |-> 80]
    /\ builderResult[1].name = "invalid_backend_ref"

\* C25: buildConfiguration returns the empty Configuration when the
\* GatewayClass of the graph is absent or invalid or its Gateway is absent,
\* whatever listeners, routes and backends the graph holds.
EmptyWithoutClassOrGateway ==
    Built("buildConfiguration") =>
        LET g == builderArgs[1].graph
        IN (g.GatewayClass = <<>> \/ ~g.GatewayClass[1].Valid \/ g.Gateway = <<>>) =>
               /\ builderResult[1].conf.HTTPServers = <<>>
               /\ builderResult[1].conf.SSLServers = <<>>
               /\ builderResult[1].conf.Upstreams = <<>>

\* The empty Configuration for an invalid class whose gateway has a valid
\* HTTP and a valid HTTPS listener with routes and backends.
EmptyWithoutClassOrGatewayWitness ==
    /\ Built("buildConfiguration")
    /\ builderResult[1].conf = EmptyConfiguration
    /\ LET g == builderArgs[1].graph
       IN /\ g.GatewayClass # <<>> /\ ~g.GatewayClass[1].Valid
          /\ g.Gateway # <<>>
          /\ \E n \in DOMAIN g.Gateway[1].Listeners :
                 /\ g.Gateway[1].Listeners[n].Valid
                 /\ g.Gateway[1].Listeners[n].Source.Protocol = "HTTP"
                 /\ DOMAIN g.Gateway[1].Listeners[n].Routes # {}
          /\ \E n \in DOMAIN g.Gateway[1].Listeners :
                 /\ g.Gateway[1].Listeners[n].Valid
                 /\ g.Gateway[1].Listeners[n].Source.Protocol = "HTTPS"
                 /\ DOMAIN g.Gateway[1].Listeners[n].Routes # {}
          /\ DOMAIN g.Backends # {}

\* C26: HTTPServers is strictly ascending by Hostname, and SSLServers is
\* strictly ascending by Hostname with the wildcard server, when present,
\* in the last position.
ServersSorted ==
    Built("buildConfiguration") =>
        LET http == builderResult[1].conf.HTTPServers
            ssl == builderResult[1].conf.SSLServers
        IN /\ \A i \in 1..(Len(http) - 1) : StrLess(http[i].Hostname, http[i + 1].Hostname)
           /\ \A i \in 1..(Len(ssl) - 1) :
                  /\ ssl[i].Hostname # "~^"
                  /\ ssl[i + 1].Hostname = "~^"
                         \/ StrLess(ssl[i].Hostname, ssl[i + 1].Hostname)

\* Two HTTP listeners serve routes of one hostname and two HTTPS listeners
\* give four SSL servers, the last of them the wildcard.
ServersSortedWitness ==
    /\ Built("buildConfiguration")
    /\ LET g == builderArgs[1].graph
           conf == builderResult[1].conf
       IN /\ Len(conf.SSLServers) = 4
          /\ conf.SSLServers[4].Hostname = "~^"
          /\ Len(conf.HTTPServers) >= 1
          /\ \E n, m \in DOMAIN g.Gateway[1].Listeners :
                 /\ n # m
                 /\ g.Gateway[1].Listeners[n].Valid /\ g.Gateway[1].Listeners[m].Valid
                 /\ g.Gateway[1].Listeners[n].Source.Protocol = "HTTP"
                 /\ g.Gateway[1].Listeners[m].Source.Protocol = "HTTP"
                 /\ "foo.example.com" \in g.Gateway[1].Listeners[n].AcceptedHostnames
                 /\ "foo.example.com" \in g.Gateway[1].Listeners[m].AcceptedHostnames

\* The (route, rule index) pairs that the valid listeners of a protocol
\* serve under hostname h at path p.
Contributing(g, protocol, h, p) ==
    UNION {{<<k, i - 1>> :
                i \in {j \in DOMAIN g.Routes[k].Source.Rules :
                           LET rule == g.Routes[k].Source.Rules[j]
                           IN p = IF /\ Len(rule.Matches) > 0
                                     /\ rule.Matches[1].Path # <<>>
                                     /\ rule.Matches[1].Path[1].Value \notin {<<>>, <<"">>}
                                  THEN rule.Matches[1].Path[1].Value[1]
                                  ELSE "/"}} :
               k \in {r \in DOMAIN g.Routes :
                          \E n \in DOMAIN g.Gateway[1].Listeners :
                              LET l == g.Gateway[1].Listeners[n]
                              IN /\ l.Valid
                                 /\ l.Source.Protocol = protocol
                                 /\ r \in DOMAIN l.Routes
                                 /\ h \in l.AcceptedHostnames
                                 /\ IF g.Routes[r].Source.Hostnames = <<>>
                                    THEN h = (IF l.Source.Hostname \in {<<>>, <<"">>}
                                              THEN "~^" ELSE l.Source.Hostname[1])
                                    ELSE \E j \in DOMAIN g.Routes[r].Source.Hostnames :
                                             g.Routes[r].Source.Hostnames[j] = h}}

\* The PathRules of the server of hostname h merge the rules by path.
PathRulesOf(g, protocol, server) ==
    /\ \A i \in 1..(Len(server.PathRules) - 1) :
           StrLess(server.PathRules[i].Path, server.PathRules[i + 1].Path)
    /\ \A i \in DOMAIN server.PathRules :
           LET rules == server.PathRules[i].MatchRules
               from == Contributing(g, protocol, server.Hostname, server.PathRules[i].Path)
           IN /\ Len(rules) = Cardinality(from)
              /\ {<<rules[j].Source, rules[j].RuleIdx>> : j \in DOMAIN rules} = from
              /\ \A j \in 1..(Len(rules) - 1) :
                     \/ NsnameLess(rules[j].Source, rules[j + 1].Source)
                     \/ /\ rules[j].Source = rules[j + 1].Source
                        /\ rules[j].RuleIdx < rules[j + 1].RuleIdx

\* C27: in every virtual server each path appears in exactly one PathRule,
\* the PathRules are ascending by path, and the MatchRules of a PathRule
\* are one entry for every (route, rule) served at that path, the routes in
\* (namespace, name) order, each entry with the index of its rule.
PathRulesMerged ==
    Built("buildConfiguration") =>
        LET g == builderArgs[1].graph
            conf == builderResult[1].conf
        IN /\ \A i \in DOMAIN conf.HTTPServers : PathRulesOf(g, "HTTP", conf.HTTPServers[i])
           /\ \A i \in DOMAIN conf.SSLServers : PathRulesOf(g, "HTTPS", conf.SSLServers[i])

\* A server has three PathRules and the first merges rules of routes of
\* two namespaces, one of them the second rule onward of its route.
PathRulesMergedWitness ==
    /\ Built("buildConfiguration")
    /\ \E i \in DOMAIN builderResult[1].conf.HTTPServers :
           LET rules == builderResult[1].conf.HTTPServers[i].PathRules
           IN /\ Len(rules) = 3
              /\ Len(rules[1].MatchRules) >= 3
              /\ \E a, b \in DOMAIN rules[1].MatchRules :
                     /\ rules[1].MatchRules[a].Source.Namespace
                            # rules[1].MatchRules[b].Source.Namespace
                     /\ rules[1].MatchRules[b].RuleIdx > 0

\* The listeners of the graph that are valid.
ValidListeners(g) ==
    [n \in {m \in DOMAIN g.Gateway[1].Listeners : g.Gateway[1].Listeners[m].Valid} |->
         g.Gateway[1].Listeners[n]]

\* C28: an invalid listener contributes nothing: the servers, the wildcard
\* server included, and their path rules are those of the graph without
\* its invalid listeners, and there is none when every listener is invalid.
InvalidListenerSilent ==
    (/\ Built("buildConfiguration")
     /\ builderArgs[1].graph.GatewayClass # <<>>
     /\ builderArgs[1].graph.GatewayClass[1].Valid
     /\ builderArgs[1].graph.Gateway # <<>>) =>
        LET g == builderArgs[1].graph
            conf == builderResult[1].conf
        IN /\ conf.HTTPServers = buildHTTPServers(ValidListeners(g))
           /\ conf.SSLServers = buildSSLServers(ValidListeners(g))
           /\ DOMAIN ValidListeners(g) = {} =>
                  conf.HTTPServers = <<>> /\ conf.SSLServers = <<>>

\* Only invalid listeners, an HTTP and an HTTPS one, with routes, accepted
\* hostnames and backends: upstreams are emitted and no server.
InvalidListenerSilentWitness ==
    /\ Built("buildConfiguration")
    /\ LET g == builderArgs[1].graph
           conf == builderResult[1].conf
       IN /\ conf.Upstreams # <<>>
          /\ conf.HTTPServers = <<>> /\ conf.SSLServers = <<>>
          /\ \E n, m \in DOMAIN g.Gateway[1].Listeners :
                 /\ g.Gateway[1].Listeners[n].Source.Protocol = "HTTP"
                 /\ g.Gateway[1].Listeners[m].Source.Protocol = "HTTPS"
                 /\ \A x \in {n, m} :
                        /\ ~g.Gateway[1].Listeners[x].Valid
                        /\ DOMAIN g.Gateway[1].Listeners[x].Routes # {}
                        /\ g.Gateway[1].Listeners[x].AcceptedHostnames # {}

\* C29: the Upstreams list is emitted in ascending order of the upstream
\* name, the same whatever the order in which the backends are visited.
UpstreamsSortedByName ==
    Built("buildUpstreams") =>
        LET upstreams == builderResult[1].upstreams
        IN /\ \A i \in 1..(Len(upstreams) - 1) :
                  StrLess(upstreams[i].Name, upstreams[i + 1].Name)
           /\ \A order \in IterationOrders(builderArgs[1].backends) :
                  buildUpstreams(builderArgs[1].backends, order) = upstreams

\* C30: buildUpstreams emits one Upstream for every entry of backends, named
\* by generateUpstreamName of the key, with the endpoints of the entry, and
\* with nil Endpoints when the endpoint list of the entry is nil or empty.
UpstreamPerBackend ==
    Built("buildUpstreams") =>
        LET backends == builderArgs[1].backends
            upstreams == builderResult[1].upstreams
        IN /\ Len(upstreams) = Cardinality(DOMAIN backends)
           /\ \A svc \in DOMAIN backends :
                  \E i \in DOMAIN upstreams :
                      /\ upstreams[i].Name = generateUpstreamName(svc)
                      /\ upstreams[i].Endpoints =
                             IF backends[svc].Endpoints \in {<<>>, << <<>> >>} THEN <<>>
                             ELSE backends[svc].Endpoints


\* C31: when Resolve succeeds, the number of endpoints it returns is the
\* capacity the counting pass computed, and that is the number of addresses
\* of ready endpoints of the slices that are not ignored, each position
\* counted (an address listed twice gives two endpoints).
LengthEqualsCapacity ==
    (resolveResult # NotCalled /\ resolveResult[1].err = NilError) =>
        LET items == resolverArgs.listed.Items
            tp == getTargetPort(resolverArgs.svc[1], resolverArgs.svcPort).port
            endpoints == resolveResult[1].endpoints[1]
        IN /\ Len(endpoints) = calculateEndpointSliceCapacity(items, tp)
           /\ Len(endpoints) = Cardinality(ReadyAddresses(items, tp))

\* Resolve returned three endpoints, the first and the third with the same
\* address: two addresses of one ready endpoint, and the one ready endpoint
\* of a second slice that also holds endpoints that are not ready.
LengthEqualsCapacityWitness ==
    /\ resolveResult # NotCalled
    /\ resolveResult[1].err = NilError
    /\ Len(resolveResult[1].endpoints[1]) = 3
    /\ resolveResult[1].endpoints[1][1] = resolveResult[1].endpoints[1][3]
    /\ Len(resolverArgs.listed.Items[1].Endpoints[1].Addresses) = 2
    /\ \E j \in DOMAIN resolverArgs.listed.Items[2].Endpoints :
           resolverArgs.listed.Items[2].Endpoints[j].Ready = <<FALSE>>

\* C32: no step of a Process call (taking the lock and testing the flag,
\* building, returning) changes the store, whatever the call returns; of
\* store and storeChanged such a step writes storeChanged only, and only
\* to reset it.
ProcessKeepsStore ==
    [][\A t \in Threads :
           (pc'[t] # pc[t] /\ (op[t] = "process" \/ op'[t] = "process")) =>
               /\ store' = store
               /\ storeChanged' # storeChanged => (storeChanged /\ pc[t] = "lock")]_vars

\* A Process returns changed = TRUE over a store that holds a class, a
\* gateway, a route and the index entry of its Service, the store it found.
ProcessKeepsStoreWitness ==
    \E t \in Threads :
        /\ ProcessReturning(t) /\ ret[t].changed
        /\ store.gc # <<>>
        /\ DOMAIN store.gateways # {}
        /\ DOMAIN store.httpRoutes # {}
        /\ DOMAIN store.services # {}
        /\ obs[t].snap = <<store>>

\* C33: after every step of the same sequence of HTTPRoute upserts and
\* deletes applied to a ChangeProcessor and to a Capturer, the Services with
\* an entry in store.services are the Services for which
\* Exists(Service, s) is true.
IndexAgreesWithTracker ==
    DOMAIN store.services = {s \in AllServices : Exists("Service", s)}

\* C34: for every HTTPRoute handed to both components, the elements of the
\* list the change processor's getBackendServiceNamesFromRoute returns are
\* the set the tracker's getBackendServiceNamesFromRoute returns (the set
\* the tracker recorded for the route).
ExtractorsAgree ==
    \A k \in DOMAIN captured :
        /\ SeqToSet(getBackendServiceNamesFromRoute(captured[k]))
               = relationshipGetBackendServiceNamesFromRoute(captured[k])
        /\ SeqToSet(getBackendServiceNamesFromRoute(captured[k])) = routesToServices[k]

\* Both hold a route for which the list names a Service twice, and a route
\* whose backend ref names a Service of another namespace.
ExtractorsAgreeWitness ==
    /\ \E k \in DOMAIN captured :
           /\ store.httpRoutes[k] = captured[k]
           /\ Len(getBackendServiceNamesFromRoute(captured[k])) = 3
           /\ Cardinality(routesToServices[k]) = 2
    /\ \E k \in DOMAIN captured :
           /\ store.httpRoutes[k] = captured[k]
           /\ routesToServices[k] = {Nsname("other", "svc1")}

\* A CaptureDeleteChange of the EndpointSlice under key k is returning.
SliceDeleteStep(t, k) ==
    /\ pc[t] = "lock" /\ op[t] = "delete" /\ pc'[t] = "unlock"
    /\ last'[t].kind = "EndpointSlice"
    /\ k \in DOMAIN delivered /\ k \notin DOMAIN delivered'

\* C35: CaptureDeleteChange of an EndpointSlice that was delivered with an
\* owner Service that is a key of store.services at the time of the delete
\* sets storeChanged, whether the slice was delivered before or after the
\* HTTPRoute that references the Service.
ChurnTriggersRebuild ==
    [][\A t \in Threads : \A k \in DOMAIN delivered :
           (SliceDeleteStep(t, k)
                /\ ServiceOwners(delivered[k]) \cap DOMAIN store.services # {})
               => storeChanged']_vars

\* C36: a CaptureDeleteChange of the managed GatewayClass, of a Gateway or
\* of an HTTPRoute returns with storeChanged set, whether or not a resource
\* was stored under the key, and the Process that follows returns
\* changed = TRUE.
DeleteAlwaysRebuilds ==
    \A t \in Threads :
        /\ (/\ CaptureReturning(t) /\ last[t].op = "delete" /\ ~last[t].panic
            /\ last[t].kind \in {"GatewayClass", "Gateway", "HTTPRoute"})
               => (storeChanged /\ pending)
        /\ (ProcessReturning(t) /\ obs[t].pending) => ret[t].changed

\* The delete of a Gateway key under which nothing is stored returns with the
\* flag set, which was clear before the call.
DeleteAlwaysRebuildsWitness ==
    \E t \in Threads :
        /\ CaptureReturning(t) /\ last[t].op = "delete" /\ last[t].kind = "Gateway"
        /\ ~last[t].hit /\ ~last[t].was
        /\ DOMAIN store.gateways = {}
        /\ storeChanged

\* C37: when the version of EndpointSlice e captured last has no Service
\* owner, Exists(EndpointSlice, e) is false, also when an earlier version
\* of e had an owner Service that a route still references.
OwnerFollowsLatest ==
    \A e \in DOMAIN delivered :
        ServiceOwners(delivered[e]) = {} => ~Exists("EndpointSlice", e)

\* The tracker's three maps.
TrackerMaps == <<routesToServices, serviceRefCount, endpointSliceOwners>>

\* The sets of Services recorded for the routes other than key are the same
\* before and after the step.
OtherRoutesKept(key) ==
    /\ DOMAIN routesToServices' \ {key} = DOMAIN routesToServices \ {key}
    /\ \A r \in DOMAIN routesToServices \ {key} : routesToServices'[r] = routesToServices[r]

\* C38: Capture and Remove of an EndpointSlice leave routesToServices and
\* serviceRefCount as they were; Capture and Remove of an HTTPRoute leave
\* endpointSliceOwners and the Services recorded for every other route as
\* they were; Capture and Remove of another kind, and Remove of an HTTPRoute
\* that is not captured, leave the three maps as they were.
TrackerFrames ==
    [][/\ \A obj \in TrackerInputs :
              Capture(obj) =>
                  CASE obj.Kind = "EndpointSlice" ->
                           UNCHANGED <<routesToServices, serviceRefCount>>
                    [] obj.Kind = "HTTPRoute" ->
                           /\ UNCHANGED endpointSliceOwners
                           /\ OtherRoutesKept(getNamespacedName(obj))
                    [] OTHER -> UNCHANGED TrackerMaps
       /\ \A k \in TrackerKeys :
              Remove(k.Kind, Nsname(k.Namespace, k.Name)) =>
                  CASE k.Kind = "EndpointSlice" ->
                           UNCHANGED <<routesToServices, serviceRefCount>>
                    [] k.Kind = "HTTPRoute" ->
                           /\ UNCHANGED endpointSliceOwners
                           /\ OtherRoutesKept(Nsname(k.Namespace, k.Name))
                           /\ Nsname(k.Namespace, k.Name) \notin DOMAIN captured
                                  => UNCHANGED TrackerMaps
                    [] OTHER -> UNCHANGED TrackerMaps]_vars

\* A route was captured and removed while another route and the owner of an
\* EndpointSlice were recorded: both records are as they were before.
TrackerFramesWitness ==
    /\ RoundTripDone
    /\ endpointSliceOwners # EmptyMap
    /\ endpointSliceOwners = roundTrip[1].endpointSliceOwners
    /\ \E r \in DOMAIN routesToServices :
           /\ r # getNamespacedName(roundTrip[1].route)
           /\ routesToServices[r] # {}
           /\ roundTrip[1].routesToServices[r] = routesToServices[r]

\* An EndpointSlice and an HTTPRoute, or two HTTPRoutes with different keys
\* (each unordered pair once).
CommutingPairs ==
    (TrackerSlices \X TrackerRoutes)
        \cup {p \in TrackerRoutes \X TrackerRoutes : p[1].Name = "hr-1" /\ p[2].Name = "hr-2"}

\* C39: from every state of the tracker, capturing an EndpointSlice and then
\* an HTTPRoute gives the same three maps and the same answers of Exists
\* as capturing them in the other order; likewise for two HTTPRoutes with
\* different keys.
CapturesCommute ==
    \A p \in CommutingPairs :
        \A ends \in {<<CaptureOn(CaptureOn(Capturer, p[1]), p[2]),
                       CaptureOn(CaptureOn(Capturer, p[2]), p[1])>>} :
            /\ ends[1] = ends[2]
            /\ \A k \in TrackerKeys :
                   ExistsOn(ends[1], k.Kind, Nsname(k.Namespace, k.Name))
                       = ExistsOn(ends[2], k.Kind, Nsname(k.Namespace, k.Name))

\* A route was captured after an EndpointSlice whose owner it references,
\* next to a route that references the same Service: the tracker is the one
\* reached by capturing the route first and the slice after it.
CapturesCommuteWitness ==
    /\ roundTrip # <<>> /\ roundTrip[1].phase = "captured" /\ roundTrip[1].fresh
    /\ \E e \in DOMAIN delivered :
           LET before == [routesToServices |-> roundTrip[1].routesToServices,
                          serviceRefCount |-> roundTrip[1].serviceRefCount,
                          endpointSliceOwners |->
                              MapDelete(roundTrip[1].endpointSliceOwners, e)]
           IN /\ e \in DOMAIN roundTrip[1].endpointSliceOwners
              /\ Capturer = CaptureOn(CaptureOn(before, roundTrip[1].route), delivered[e])
              /\ ~ExistsOn(before, "EndpointSlice", e)
              /\ Exists("EndpointSlice", e)
              /\ serviceRefCount[endpointSliceOwners[e]] = 2

=============================================================================
